---- MODULE Spec2Model ----
(***************************************************************************)
(* A model of the curriculum RL fine-tuning loop of DiffusionCurriculum:   *)
(* the prompt loader (src/train/ordered_dataloader.py) and the three       *)
(* trainers (src/train/trainer/ddpo.py, d3po.py, dpok.py).                 *)
(*                                                                         *)
(* The module holds several specifications over one set of variables:      *)
(*   SpecLoader   N workers, each with its own CurriculumPromptLoader       *)
(*   SpecTrain    one worker's Trainer.train(): sampling, curriculum        *)
(*                feedback, inner training epochs, checkpoints              *)
(*   SpecShuffle  the reshuffle-and-rebatch transform of epoch_loop         *)
(*   SpecCompare  the domination comparison Trainer._compare of d3po        *)
(*   SpecPpo      the PPO-clip loss of Trainer.step                         *)
(*   SpecAdv      the advantages of an epoch, from the rewards gathered     *)
(*                across N workers                                          *)
(*   SpecStat     PerPromptStatTracker.update, call after call              *)
(*   SpecRef      the d3po policy and its frozen reference copy              *)
(*   SpecSave     the end-of-epoch barrier and checkpoint, N workers         *)
(*   SpecInner    the inner training epochs of epoch_loop and step, with     *)
(*                gradient accumulation, for the three trainers             *)
(*   SpecPair     one batch of paired trajectories of d3po _sample           *)
(*   SpecLoss     the pairwise-preference loss of one timestep of d3po step  *)
(*   SpecRun      start_train.main, Trainer.__init__ and the epochs of      *)
(*                Trainer.train, with checkpoint resume                     *)
(* Each specification leaves the variables of the others at their idle     *)
(* value.                                                                  *)
(***************************************************************************)
EXTENDS Integers, Sequences, FiniteSets, TLC

VARIABLES
    \* ---- CurriculumPromptLoader, one object per worker process ----
    num_processes,             \* accelerator.num_processes
    difficulty_to_prompts,     \* tier -> sequence of prompts (the same file for every worker)
    difficulty_to_prompts_idx, \* worker -> (tier -> cursor)
    current_difficulty,        \* worker -> active tier
    drawn,                     \* worker -> set of <<tier, index>> returned by next()
    last_call,                 \* worker -> what the latest next() call saw and did
    raised,                    \* worker -> "none" or the exception that ended the worker
    \* ---- Trainer (one worker process) ----
    config,                    \* the Config the trainer was built with
    process_index,             \* accelerator.process_index of the modelled worker
    pc,                        \* where Trainer.train() stands
    t_raised,                  \* "none" or the exception that ended train()
    last_difficulty,           \* Trainer.last_difficulty
    epoch,                     \* loop variable of train()
    global_step,               \* global_step of train() / epoch_loop()
    batch_index,               \* _sample: index of the sampling batch in the epoch
    batch_prompts,             \* _sample: prompts drawn so far for the batch in flight
    sampling,                  \* _sample: calls made and the latest observation
    inner_epoch,               \* epoch_loop: loop variable
    minibatch,                 \* epoch_loop: i, index of the training minibatch
    timestep,                  \* step: j
    accel,                     \* accelerator: step counter, sync_gradients, gradient window
    optim,                     \* optimizer steps of the inner epoch and the window of the latest
    logged,                    \* accelerator.log: the step key and the kind of the latest call
    observed,                  \* stat_tracker.update calls, phases of the epoch, steps fed
    \* ---- epoch_loop: reshuffle and rebatch ----
    shape,                     \* trainer, total_batch_size, num_timesteps, train_batch_size
    samples,                   \* the dict of per-trajectory tensors
    samples_batched,           \* the dict after reshape(-1, train_batch_size, ...)
    shuffles,                  \* inner epochs started so far
    \* ---- Trainer._compare ----
    cmp_a,                     \* argument a
    cmp_b,                     \* argument b
    cmp_c,                     \* the returned tensor, or <<>> before the call
    cmp_swapped,               \* the tensor returned for (b, a), or <<>> before that call
    \* ---- Trainer.step: the PPO-clip loss of one timestep of one minibatch ----
    ppo_config,                \* train_adv_clip_max, train_clip_range
    ppo_batch,                 \* batch["advantages"], batch["log_probs"][:, j]
    ppo_log_prob,              \* log_prob of the current policy
    ppo_info,                  \* ratio, loss and clipfrac, or <<>> before the step
    \* ---- start_train.main, Trainer.__init__ and Trainer.train, epoch by epoch ----
    run_argv,                  \* the command line: rl_algorithm
    run_config,                \* the Config parsed from it
    run_listdir,               \* os.listdir(resume_from): the entries of the resume directory
    run_pc,                    \* "main", "init", "train", "done" or "raised"
    run_raised,                \* "none" or the exception that ended the run
    run_resume_from,           \* config.resume_from after Trainer.__init__ resolved it
    first_epoch,               \* Trainer.first_epoch
    run_epoch,                 \* loop variable of train()
    epochs_run,                \* the epochs whose epoch_loop returned, in order
    effects,                   \* prompts drawn, trajectories sampled, optimizer steps, checkpoints
    \* ---- epoch_loop: advantages from the gathered rewards, N workers ----
    adv_num_processes,         \* accelerator.num_processes
    adv_local_rewards,         \* worker -> zip_samples["rewards"], one reward per local trajectory
    adv_rewards,               \* worker -> rewards returned by _sample, or <<>> before the gather
    adv_samples,               \* worker -> samples["advantages"], or <<>> before it is set
    \* ---- PerPromptStatTracker ----
    st_config,                 \* buffer_size, min_count
    st_stats,                  \* prompt -> ring buffer of rewards, oldest first
    st_fed,                    \* prompt -> every reward fed for it so far, in arrival order
    st_call,                   \* the latest update call: prompts, rewards, advantages
    \* ---- d3po Trainer: the policy and its reference copy ----
    d3_config,                 \* use_lora, resume_from, accumulation window
    d3_heap,                   \* object id -> the UNet module stored there
    d3_unet,                   \* self.sd_pipeline.unet: an object id
    d3_ref,                    \* self.ref: an object id, 0 before it is assigned
    d3_ref_created,            \* the module self.ref held when it was assigned
    d3_optimizer,              \* the object ids whose parameters the optimizer was given
    d3_grad,                   \* object id -> <<accumulated gradient>>, or <<>> for None
    d3_accel_step,             \* accelerator.step
    d3_backwards,              \* backward passes so far
    d3_pc,                     \* "new", "train"
    \* ---- epoch_loop on N workers: the end of the epoch and the checkpoint ----
    sv_num_processes,          \* accelerator.num_processes
    sv_config,                 \* num_epochs, train_num_inner_epochs, save_freq
    sv_pc,                     \* worker -> "sample", "train", "barrier" or "done"
    sv_epoch,                  \* worker -> epoch
    sv_inner_epoch,            \* worker -> inner epochs of the epoch completed
    sv_barriers,               \* worker -> calls of wait_for_everyone() so far
    sv_saved,                  \* worker -> the epochs at whose end it called save_state()
    sv_decided,                \* worker -> (epoch -> "save" or "skip"), the ended epochs
    \* ---- epoch_loop and step: the inner training epochs of one epoch ----
    tr_config,                 \* the Config of the trainer
    tr_pc,                     \* "new", "sample", "step", "inner_end", "done" or "error"
    tr_raised,                 \* "none" or the assertion that failed
    tr_inner_epoch,            \* epoch_loop: inner_epoch
    tr_i,                      \* epoch_loop: index of the minibatch in flight
    tr_j,                      \* step: j
    tr_accel,                  \* accelerator: step counter and sync_gradients
    tr_events,                 \* what the latest timestep did to the gradients, in order
    tr_totals,                 \* backward passes, clips, optimizer steps, zero_grads so far
    tr_grads,                  \* backward passes accumulated in .grad
    tr_sync,                   \* the latest sync point: j, the step argument, the tested value
    \* ---- d3po _sample: one batch of paired trajectories ----
    ps_config,                 \* sample_batch_size, sample_num_steps
    ps_pc,                     \* "new", "prompts", "first", "second", "stacked" or "error"
    ps_raised,                 \* "none" or the exception that ended _sample
    ps_prompts,                \* <<prompts1, prompts2>>
    ps_prompt_embeds,          \* <<prompt_embeds1, prompt_embeds2>>
    ps_rollouts,               \* the outputs of the calls of the sampler so far
    ps_sample,                 \* the tensors of the batch after stacking
    \* ---- d3po step: the pairwise-preference loss of one timestep ----
    pl_config,                 \* train_eps, train_beta
    pl_rewards,                \* pair -> <<reward of trajectory 0, reward of trajectory 1>>
    pl_log_ratios,             \* pair -> <<total_prob_0 - total_ref_prob_0, the same for 1>>
    pl_out                     \* <<>> or the preferences, ratios, losses and gradients

loaderVars == <<num_processes, difficulty_to_prompts, difficulty_to_prompts_idx,
                current_difficulty, drawn, last_call, raised>>

trainVars == <<config, process_index, pc, t_raised, last_difficulty, epoch, global_step,
               batch_index, batch_prompts, sampling, inner_epoch, minibatch, timestep,
               accel, optim, logged, observed>>

shuffleVars == <<shape, samples, samples_batched, shuffles>>

compareVars == <<cmp_a, cmp_b, cmp_c, cmp_swapped>>

ppoVars == <<ppo_config, ppo_batch, ppo_log_prob, ppo_info>>

\* the variables of the specifications of single trainer functions
runVars == <<run_argv, run_config, run_listdir, run_pc, run_raised, run_resume_from,
             first_epoch, run_epoch, epochs_run, effects>>

advVars == <<adv_num_processes, adv_local_rewards, adv_rewards, adv_samples>>

statVars == <<st_config, st_stats, st_fed, st_call>>

refVars == <<d3_config, d3_heap, d3_unet, d3_ref, d3_ref_created, d3_optimizer, d3_grad,
             d3_accel_step, d3_backwards, d3_pc>>

saveVars == <<sv_num_processes, sv_config, sv_pc, sv_epoch, sv_inner_epoch, sv_barriers,
              sv_saved, sv_decided>>

innerVars == <<tr_config, tr_pc, tr_raised, tr_inner_epoch, tr_i, tr_j, tr_accel, tr_events,
               tr_totals, tr_grads, tr_sync>>

pairVars == <<ps_config, ps_pc, ps_raised, ps_prompts, ps_prompt_embeds, ps_rollouts,
              ps_sample>>

lossVars == <<pl_config, pl_rewards, pl_log_ratios, pl_out>>

lastVars == <<innerVars, pairVars, lossVars>>

laterVars == <<ppoVars, runVars, advVars, statVars, refVars, saveVars, lastVars>>

vars == <<loaderVars, trainVars, shuffleVars, compareVars, laterVars>>

(***************************************************************************)
(* Bounds                                                                  *)
(***************************************************************************)
MaxProcs == 2
MaxTierLen == 3
MaxSampleBatch == 2
MaxNumBatches == 2
MaxAccum == 2
MaxTimesteps == 2
MaxInnerEpochs == 2
MaxEpochs == 2
MaxSamplesPerEpoch == 4
MaxInnerEpochsPerRun == 4
MaxTrajectories == 3
MaxSteps == 2
MaxCells == 6
MaxShuffles == 2
MaxPairs == 2
MaxRewardDim == 2
MaxRewardCells == 2
MaxPpoBatch == 2
MaxCheckpointDigits == 2
MaxListing == 2
MaxLocalSamples == 2
MaxCallLen == 2
MaxFed == 4
MaxBackwards == 4

\* tier numbers a prompt file may hold (keys "difficulty_<n>")
TierIds == {1, 2}
\* values a caller may pass to set_difficulty: the tiers, and one below and one above
DifficultyValues == {0, 1, 2, 3}

NoCall == [called |-> FALSE, difficulty |-> 0, wrapped |-> FALSE, index |-> -1, prompt |-> <<0, -1>>]

(***************************************************************************)
(* CurriculumPromptLoader                                                  *)
(***************************************************************************)
Min(S) == CHOOSE x \in S : \A y \in S : x <= y
Max(S) == CHOOSE x \in S : \A y \in S : x >= y

\* the prompt list of one tier: prompt k of tier d is <<d, k>> (k counted from 0)
Prompts(d, n) == [k \in 1..n |-> <<d, k - 1>>]

\* every prompt file with tiers among TierIds and 1..MaxTierLen prompts per tier
Ladders ==
    UNION { { [d \in D |-> Prompts(d, len[d])] : len \in [D -> 1..MaxTierLen] }
            : D \in (SUBSET TierIds) \ {{}} }

\* __init__: the active tier of a new loader
InitialDifficulty == 1

\* init(): every tier's cursor starts at the worker's process_index
InitialCursor(p) == p

\* init(): difficulty_range = (min tier, max tier)
difficulty_range_getter == <<Min(DOMAIN difficulty_to_prompts), Max(DOMAIN difficulty_to_prompts)>>

\* a loader that resets an exhausted tier to position 0, as its log message says
WrapCursorToZero(p) == 0

\* next(): the cursor an exhausted tier is reset to
WrapCursor(p) == p

\* next(): the cursor after one draw
AdvanceCursor(cursor, n) == cursor + n

\* python list indexing prompts[cursor], cursor >= 0
InRange(cursor, prompts) == cursor < Len(prompts)

LoaderInit(ladders) ==
    /\ num_processes \in 1..MaxProcs
    /\ difficulty_to_prompts \in ladders
    /\ difficulty_to_prompts_idx =
         [p \in 0..(num_processes - 1) |-> [d \in DOMAIN difficulty_to_prompts |-> InitialCursor(p)]]
    /\ current_difficulty = [p \in 0..(num_processes - 1) |-> InitialDifficulty]
    /\ drawn = [p \in 0..(num_processes - 1) |-> {}]
    /\ last_call = [p \in 0..(num_processes - 1) |-> NoCall]
    /\ raised = [p \in 0..(num_processes - 1) |-> "none"]

\* next() of worker p's loader
LoaderNext(p) ==
    /\ raised[p] = "none"
    /\ LET d == current_difficulty[p] IN
       IF d \notin DOMAIN difficulty_to_prompts_idx[p]
       THEN \* difficulty_to_prompts_idx[self.current_difficulty]: KeyError
            /\ raised' = [raised EXCEPT ![p] = "KeyError"]
            /\ last_call' = [last_call EXCEPT ![p] =
                   [NoCall EXCEPT !.called = TRUE, !.difficulty = d]]
            /\ UNCHANGED <<difficulty_to_prompts_idx, drawn>>
       ELSE LET prompts == difficulty_to_prompts[d]
                wrapped == difficulty_to_prompts_idx[p][d] >= Len(prompts)
                cursor  == IF wrapped THEN WrapCursor(p) ELSE difficulty_to_prompts_idx[p][d]
            IN  IF ~InRange(cursor, prompts)
                THEN \* prompts[cursor]: IndexError, after the reset was stored
                     /\ raised' = [raised EXCEPT ![p] = "IndexError"]
                     /\ difficulty_to_prompts_idx' =
                            [difficulty_to_prompts_idx EXCEPT ![p][d] = cursor]
                     /\ last_call' = [last_call EXCEPT ![p] =
                            [NoCall EXCEPT !.called = TRUE, !.difficulty = d,
                                           !.wrapped = wrapped]]
                     /\ UNCHANGED drawn
                ELSE /\ difficulty_to_prompts_idx' =
                            [difficulty_to_prompts_idx EXCEPT
                                ![p][d] = AdvanceCursor(cursor, num_processes)]
                     /\ drawn' = [drawn EXCEPT ![p] = @ \cup {<<d, cursor>>}]
                     /\ last_call' = [last_call EXCEPT ![p] =
                            [called |-> TRUE, difficulty |-> d, wrapped |-> wrapped,
                             index |-> cursor, prompt |-> prompts[cursor + 1]]]
                     /\ UNCHANGED raised
    /\ UNCHANGED <<num_processes, difficulty_to_prompts, current_difficulty>>

\* a set_difficulty() that also rewinds the cursor of the tier it selects
LoaderSetDifficultyRewinding(p, difficulty) ==
    /\ raised[p] = "none"
    /\ current_difficulty' = [current_difficulty EXCEPT ![p] = difficulty]
    /\ difficulty_to_prompts_idx' =
           [difficulty_to_prompts_idx EXCEPT ![p] =
               [d \in DOMAIN @ |-> IF d = difficulty THEN InitialCursor(p) ELSE @[d]]]
    /\ UNCHANGED <<num_processes, difficulty_to_prompts, drawn, last_call, raised>>

\* a set_difficulty() that only logs and leaves the active tier as it was
LoaderSetDifficultyIgnored(p, difficulty) ==
    /\ raised[p] = "none"
    /\ UNCHANGED loaderVars

\* set_difficulty(difficulty) of worker p's loader
LoaderSetDifficulty(p, difficulty) ==
    /\ raised[p] = "none"
    /\ current_difficulty' = [current_difficulty EXCEPT ![p] = difficulty]
    /\ UNCHANGED <<num_processes, difficulty_to_prompts, difficulty_to_prompts_idx,
                   drawn, last_call, raised>>

(***************************************************************************)
(* Curriculum (train/curriculum.py) and the wiring of the trainer to the   *)
(* loader (train/train.py)                                                 *)
(***************************************************************************)
\* a batch's mean reward: a finite value, or one of the IEEE specials
Finite(v) == [kind |-> "finite", value |-> v]
PosInf == [kind |-> "+inf", value |-> 0]
NegInf == [kind |-> "-inf", value |-> 0]
NaN == [kind |-> "nan", value |-> 0]
RewardMeans == {Finite(0), Finite(1), Finite(2), PosInf, NegInf, NaN}

\* IEEE comparisons of a reward with a finite threshold: every comparison with NaN is false
Greater(r, t) == r.kind = "+inf" \/ (r.kind = "finite" /\ r.value > t)
Less(r, t) == r.kind = "-inf" \/ (r.kind = "finite" /\ r.value < t)

MasteryThreshold == 1

\* the trend strategy: harder after a reward above the threshold, easier after one below
Trend(reward) ==
    IF Greater(reward, MasteryThreshold) THEN 1
    ELSE IF Less(reward, MasteryThreshold) THEN -1
    ELSE 0

Clamp(d, range) == IF d < range[1] THEN range[1] ELSE IF d > range[2] THEN range[2] ELSE d

\* a controller that follows the trend without clamping to the range
infer_target_difficulty_unclamped(observation, range) ==
    observation.difficulty + Trend(observation.reward)

\* Curriculum.infer_target_difficulty(observation), the range being the loader's
infer_target_difficulty(observation, range) ==
    Clamp(observation.difficulty + Trend(observation.reward), range)

\* prompt_function of the trainer: the loader's next()
prompt_fn(p) == LoaderNext(p)

\* update_target_difficulty of the trainer: the loader's set_difficulty()
update_target_difficulty(p, difficulty) == LoaderSetDifficulty(p, difficulty)

(***************************************************************************)
(* Trainer                                                                 *)
(***************************************************************************)
Algorithms == {"ddpo", "d3po", "dpok"}

\* the Configs of the modelled runs: the samples of an epoch and the inner epochs of
\* a run are bounded as a whole
Configs ==
    {c \in [rl_algorithm : Algorithms,
            per_prompt_stat_tracking : BOOLEAN,
            sample_batch_size : 1..MaxSampleBatch,
            sample_num_batches_per_epoch : 1..MaxNumBatches,
            train_batch_size : 1..MaxSampleBatch,
            train_gradient_accumulation_steps : 1..MaxAccum,
            num_train_timesteps : 1..MaxTimesteps,
            train_num_inner_epochs : 0..MaxInnerEpochs,
            num_epochs : 1..MaxEpochs,
            save_freq : {1, 2},
            report_to : {"wandb", "none"}] :
        /\ c.sample_batch_size * c.sample_num_batches_per_epoch <= MaxSamplesPerEpoch
        /\ c.train_num_inner_epochs * c.num_epochs <= MaxInnerEpochsPerRun}

NoObservation == [current_step |-> -1, difficulty |-> -1, reward |-> NaN, tiers |-> {}]
NewSampling == [infer_calls |-> 0, update_calls |-> 0, observation |-> NoObservation]
NewAccel == [step |-> 0, sync_gradients |-> TRUE, window |-> 0]
NewOptim == [steps |-> 0, window |-> 0]
NothingLogged == [step |-> -1, kind |-> "none", calls |-> 0]
NothingObserved ==
    [stat_updates |-> 0, stat_batches |-> -1, phases |-> <<>>, fed_step |-> -1,
     fed_in_order |-> TRUE]

\* a per-epoch log keyed by the epoch
EpochAsStepKey(e, step) == e

\* _sample: accelerator.log({"reward": ...}, step=global_step), and the image log
SampleLogStep(e, step) == step

\* step: accelerator.log(info, step=global_step)
TrainLogStep(step) == step

\* accelerator.log(values, step=key)
Log(key, kind) == [step |-> key, kind |-> kind, calls |-> logged.calls + 1]

\* _sample: the calls of accelerator.log({"images": ...}, step=global_step) that follow
\* the reward log; ddpo makes the call when report_to is "wandb", d3po and dpok always
ImageLogs(cfg) == IF cfg.rl_algorithm = "ddpo" /\ cfg.report_to # "wandb" THEN 0 ELSE 1

\* if epoch % self.config.save_freq == 0
SaveDue(e, cfg) == e % cfg.save_freq = 0

\* Trainer.__init__: self.last_difficulty
InitialLastDifficulty == 0

\* a constructor that does not check the samples of an epoch against the
\* accumulated train batch
StartupAssertionsWithoutAccumulation(cfg, n) ==
    /\ cfg.sample_batch_size >= cfg.train_batch_size
    /\ cfg.sample_batch_size % cfg.train_batch_size = 0

\* Trainer.__init__: the consistency assertions on the configuration
StartupAssertions(cfg, n) ==
    /\ cfg.sample_batch_size >= cfg.train_batch_size
    /\ cfg.sample_batch_size % cfg.train_batch_size = 0
    /\ (cfg.sample_batch_size * n * cfg.sample_num_batches_per_epoch)
           % (cfg.train_batch_size * n * cfg.train_gradient_accumulation_steps) = 0

\* an Accelerator given the sample count alone, not multiplied by the timesteps
AccumulationStepsPerSample(cfg) == cfg.train_gradient_accumulation_steps

\* Trainer.__init__: gradient_accumulation_steps handed to the Accelerator
AccumulationSteps(cfg) == cfg.train_gradient_accumulation_steps * cfg.num_train_timesteps

\* epoch_loop: total_batch_size and the number of minibatches after the rebatch
TotalBatchSize(cfg) == cfg.sample_batch_size * cfg.sample_num_batches_per_epoch
NumMinibatches(cfg) == TotalBatchSize(cfg) \div cfg.train_batch_size

\* a _sample whose rewards are a tensor in every trainer
RewardsTypeTensor(algorithm) == "tensor"

\* _sample: the type of `rewards` when its mean is taken
\* (torch.as_tensor in ddpo and dpok, np.c_ in d3po)
RewardsType(algorithm) == IF algorithm = "d3po" THEN "ndarray" ELSE "tensor"

\* rewards.mean().cpu(): only a tensor has .cpu()
HasCpu(type) == type = "tensor"

\* _sample: whether the batch loop binds i (`for i in` in ddpo and d3po, `for _ in` in dpok)
BatchLoopBindsIndex(algorithm) == algorithm # "dpok"

\* accelerator.accumulate(): the counter after entering, and whether gradients sync
AccumulateStep(step) == step + 1
SyncGradients(step, num_steps) == step % num_steps = 0

\* step: the assertion made when the accelerator reports a sync
SyncAssertion(j, i, cfg) ==
    /\ j = cfg.num_train_timesteps - 1
    /\ (i + 1) % cfg.train_gradient_accumulation_steps = 0

\* an observation stamped with the step the epoch started at
CurrentStepOfEpoch(step, i) == step

\* _sample: "current_step": global_step + i
CurrentStep(step, i) == step + i

\* a trainer that feeds the tracker after every sampling batch
StatUpdatesPerBatch(cfg) ==
    IF cfg.per_prompt_stat_tracking THEN cfg.sample_num_batches_per_epoch ELSE 0

\* epoch_loop: if self.config.per_prompt_stat_tracking:
\*                 advantages = self.stat_tracker.update(prompts, rewards)
StatUpdates(cfg) == IF cfg.per_prompt_stat_tracking THEN 1 ELSE 0

\* the phases of the epoch in flight, each named once
Phase(name) ==
    IF observed.phases # <<>> /\ observed.phases[Len(observed.phases)] = name
    THEN observed.phases ELSE Append(observed.phases, name)

IdleTrainer ==
    /\ config = [rl_algorithm |-> "none"]
    /\ process_index = 0
    /\ pc = "idle"
    /\ t_raised = "none"
    /\ last_difficulty = 0
    /\ epoch = 0
    /\ global_step = 0
    /\ batch_index = 0
    /\ batch_prompts = <<>>
    /\ sampling = NewSampling
    /\ inner_epoch = 0
    /\ minibatch = 0
    /\ timestep = 0
    /\ accel = NewAccel
    /\ optim = NewOptim
    /\ logged = NothingLogged
    /\ observed = NothingObserved

\* the trainer object before __init__ has checked its configuration
InitTrainer ==
    /\ config \in Configs
    /\ process_index \in 0..(num_processes - 1)
    /\ pc = "new"
    /\ t_raised = "none"
    /\ last_difficulty = InitialLastDifficulty
    /\ epoch = 0
    /\ global_step = 0
    /\ batch_index = 0
    /\ batch_prompts = <<>>
    /\ sampling = NewSampling
    /\ inner_epoch = 0
    /\ minibatch = 0
    /\ timestep = 0
    /\ accel = NewAccel
    /\ optim = NewOptim
    /\ logged = NothingLogged
    /\ observed = NothingObserved

Fail(exception) ==
    /\ pc' = "error"
    /\ t_raised' = exception

\* Trainer.__init__ (the checks) and the entry of train()
TrainerInit ==
    /\ pc = "new"
    /\ IF StartupAssertions(config, num_processes)
       THEN /\ pc' = "draw"
            /\ UNCHANGED t_raised
       ELSE Fail("AssertionError:config")
    /\ UNCHANGED <<logged, observed, config, process_index, last_difficulty, epoch, global_step, batch_index,
                   batch_prompts, sampling, inner_epoch, minibatch, timestep, accel, optim>>
    /\ UNCHANGED loaderVars

\* _sample: one prompt_fn() call of the batch's list comprehension
DrawPrompt ==
    /\ pc = "draw"
    /\ Len(batch_prompts) < config.sample_batch_size
    /\ prompt_fn(process_index)
    /\ IF raised'[process_index] # "none"
       THEN /\ Fail(raised'[process_index])
            /\ UNCHANGED batch_prompts
       ELSE /\ batch_prompts' = Append(batch_prompts, last_call'[process_index].prompt)
            /\ UNCHANGED <<pc, t_raised>>
    /\ observed' = [observed EXCEPT !.phases =
                        IF batch_index = 0 /\ batch_prompts = <<>> THEN <<"sample">> ELSE @]
    /\ UNCHANGED <<logged, config, process_index, last_difficulty, epoch, global_step, batch_index,
                   sampling, inner_epoch, minibatch, timestep, accel, optim>>

\* _sample: the rest of one batch, once its prompts are drawn: rollout, reward,
\* curriculum feedback
FinishBatch(reward) ==
    /\ pc = "draw"
    /\ Len(batch_prompts) = config.sample_batch_size
    /\ IF ~BatchLoopBindsIndex(config.rl_algorithm)
       THEN \* global_step + i
            /\ Fail("UnboundLocalError")
            /\ UNCHANGED <<last_difficulty, batch_index, batch_prompts, sampling, observed>>
            /\ UNCHANGED loaderVars
       ELSE IF ~HasCpu(RewardsType(config.rl_algorithm))
       THEN \* rewards.mean().cpu()
            /\ Fail("AttributeError")
            /\ UNCHANGED <<last_difficulty, batch_index, batch_prompts, sampling, observed>>
            /\ UNCHANGED loaderVars
       ELSE LET observation == [current_step |-> CurrentStep(global_step, batch_index),
                                difficulty |-> last_difficulty,
                                reward |-> reward,
                                tiers |-> {batch_prompts[k][1] : k \in DOMAIN batch_prompts}]
                target == infer_target_difficulty(observation, difficulty_range_getter)
            IN  /\ last_difficulty' = target
                /\ update_target_difficulty(process_index, target)
                /\ sampling' = [infer_calls |-> sampling.infer_calls + 1,
                                update_calls |-> sampling.update_calls + 1,
                                observation |-> observation]
                /\ observed' = [observed EXCEPT
                       !.fed_step = observation.current_step,
                       !.fed_in_order = @ /\ observation.current_step > observed.fed_step]
                /\ batch_index' = batch_index + 1
                /\ batch_prompts' = <<>>
                /\ pc' = IF batch_index + 1 = config.sample_num_batches_per_epoch
                         THEN "sampled" ELSE "draw"
                /\ UNCHANGED t_raised
    /\ UNCHANGED <<logged, config, process_index, epoch, global_step, inner_epoch, minibatch,
                   timestep, accel, optim>>

\* _sample after its loop (gather, log) and epoch_loop up to the inner epochs
\* (advantages)
EndSampling ==
    /\ pc = "sampled"
    /\ pc' = IF config.train_num_inner_epochs > 0 THEN "shuffle" ELSE "save"
    /\ inner_epoch' = 0
    /\ sampling' = [sampling EXCEPT !.observation = NoObservation]
    /\ logged' = [Log(SampleLogStep(epoch, global_step), "reward") EXCEPT
                      !.calls = @ + ImageLogs(config)]
    /\ observed' = [observed EXCEPT
           !.stat_updates = @ + StatUpdates(config),
           !.stat_batches = IF StatUpdates(config) > 0 THEN batch_index ELSE @,
           !.phases = Phase("advantages")]
    /\ UNCHANGED <<config, process_index, t_raised, last_difficulty, epoch, global_step,
                   batch_index, batch_prompts, minibatch, timestep, accel, optim>>
    /\ UNCHANGED loaderVars

\* epoch_loop: the start of one inner epoch (shuffle, rebatch)
BeginInnerEpoch ==
    /\ pc = "shuffle"
    /\ pc' = "step"
    /\ minibatch' = 0
    /\ timestep' = 0
    /\ optim' = [optim EXCEPT !.steps = 0]
    /\ observed' = [observed EXCEPT !.phases = Phase("train")]
    /\ UNCHANGED <<logged, config, process_index, t_raised, last_difficulty, epoch, global_step,
                   batch_index, batch_prompts, sampling, inner_epoch, accel>>
    /\ UNCHANGED loaderVars

\* step: one timestep j of minibatch i (accumulate, backward, clip, optimizer.step,
\* zero_grad, the assertion), and epoch_loop's global_step += 1 after the last one
TrainTimestep ==
    /\ pc = "step"
    /\ LET step == AccumulateStep(accel.step)
           sync == SyncGradients(step, AccumulationSteps(config))
           window == accel.window + 1
           last == timestep + 1 = config.num_train_timesteps
       IN  /\ accel' = [step |-> step, sync_gradients |-> sync,
                        window |-> IF sync THEN 0 ELSE window]
           /\ optim' = IF sync THEN [steps |-> optim.steps + 1, window |-> window]
                       ELSE optim
           /\ IF sync /\ ~SyncAssertion(timestep, minibatch, config)
              THEN /\ Fail("AssertionError:sync")
                   /\ UNCHANGED <<timestep, minibatch, global_step, logged>>
              ELSE /\ logged' = IF sync THEN Log(TrainLogStep(global_step), "train") ELSE logged
                   /\ timestep' = IF last THEN 0 ELSE timestep + 1
                   /\ minibatch' = IF last THEN minibatch + 1 ELSE minibatch
                   /\ global_step' = IF last THEN global_step + 1 ELSE global_step
                   /\ pc' = IF last /\ minibatch + 1 = NumMinibatches(config)
                            THEN "inner_end" ELSE "step"
                   /\ UNCHANGED t_raised
    /\ UNCHANGED <<config, process_index, last_difficulty, epoch, batch_index,
                   batch_prompts, sampling, inner_epoch, observed>>
    /\ UNCHANGED loaderVars

\* epoch_loop: the assertion that ends an inner epoch
EndInnerEpoch ==
    /\ pc = "inner_end"
    /\ IF accel.sync_gradients
       THEN /\ inner_epoch' = inner_epoch + 1
            /\ pc' = IF inner_epoch + 1 < config.train_num_inner_epochs
                     THEN "shuffle" ELSE "save"
            /\ UNCHANGED t_raised
       ELSE /\ Fail("AssertionError:inner_epoch")
            /\ UNCHANGED inner_epoch
    /\ UNCHANGED <<logged, observed, config, process_index, last_difficulty, epoch, global_step, batch_index,
                   batch_prompts, sampling, minibatch, timestep, accel, optim>>
    /\ UNCHANGED loaderVars

\* epoch_loop: the checkpoint of the epochs that save_freq divides, and train()'s
\* step to the next epoch
EndEpoch ==
    /\ pc = "save"
    /\ epoch' = epoch + 1
    /\ pc' = IF epoch + 1 < config.num_epochs THEN "draw" ELSE "done"
    /\ batch_index' = 0
    /\ sampling' = NewSampling
    /\ observed' = IF SaveDue(epoch, config)
                    THEN [observed EXCEPT !.phases = Phase("checkpoint")]
                    ELSE observed
    /\ UNCHANGED <<logged, config, process_index, t_raised, last_difficulty, global_step,
                   batch_prompts, inner_epoch, minibatch, timestep, accel, optim>>
    /\ UNCHANGED loaderVars

(***************************************************************************)
(* epoch_loop: reshuffle and rebatch                                       *)
(***************************************************************************)
\* indices drawn with replacement (torch.randint) in place of a permutation
RandIndex(n) == [1..n -> 1..n]

\* torch.randperm(n): the permutations of 1..n
RandPerm(n) == {f \in [1..n -> 1..n] : \A x \in 1..n : \E y \in 1..n : f[y] = x}

\* the keys of `samples` that carry a time axis, and those that do not
TimeKeys == {"timesteps", "latents", "next_latents", "log_probs"}
RowKeys(algorithm) ==
    IF algorithm = "d3po" THEN {"prompt_embeds", "rewards"} ELSE {"prompt_embeds", "advantages"}

\* what _sample returns (and epoch_loop completes): every cell tagged with the
\* trajectory and denoising step it was recorded at. In d3po every tensor but
\* timesteps has a pair axis after the batch axis.
CollectedSamples(sh) ==
    LET B == sh.total_batch_size
        T == sh.num_timesteps
    IN  [key \in TimeKeys \cup RowKeys(sh.rl_algorithm) |->
            IF sh.rl_algorithm = "d3po"
            THEN IF key = "timesteps" THEN [r \in 1..B |-> [t \in 1..T |-> <<r, t>>]]
                 ELSE IF key \in TimeKeys
                 THEN [r \in 1..B |-> [m \in 1..2 |-> [t \in 1..T |-> <<r, m, t>>]]]
                 ELSE [r \in 1..B |-> [m \in 1..2 |-> <<r, m>>]]
            ELSE IF key \in TimeKeys THEN [r \in 1..B |-> [t \in 1..T |-> <<r, t>>]]
                 ELSE [r \in 1..B |-> <<r>>]]

\* v[perm]
PermuteRows(v, perm) == [r \in DOMAIN v |-> v[perm[r]]]

\* v[arange(B)[:, None], perms]
PermuteTime(v, perms) == [r \in DOMAIN v |-> [t \in DOMAIN perms[r] |-> v[r][perms[r][t]]]]

\* d3po: v.permute(pair axis last)[arange(B)[:, None], perms].permute(back)
PermuteTimePaired(v, perms) ==
    [r \in DOMAIN v |-> [m \in DOMAIN v[r] |-> [t \in DOMAIN perms[r] |-> v[r][m][perms[r][t]]]]]

\* d3po: timesteps.unsqueeze(1).repeat(1, 2, 1)
RepeatPair(v) == [r \in DOMAIN v |-> [m \in 1..2 |-> v[r]]]

\* v.reshape(-1, train_batch_size, ...)
Rebatch(v, size) ==
    [m \in 1..(Len(v) \div size) |-> [r \in 1..size |-> v[(m - 1) * size + r]]]

\* a shuffle that permutes the rows of the keys with a time axis only
ShuffleSingleTimeKeysOnly(prev, perm, perms) ==
    [key \in DOMAIN prev |->
        IF key \in TimeKeys THEN PermuteTime(PermuteRows(prev[key], perm), perms)
        ELSE prev[key]]

\* ddpo, dpok: shuffle the dict of the previous inner epoch in place
ShuffleSingle(prev, perm, perms) ==
    [key \in DOMAIN prev |->
        IF key \in TimeKeys THEN PermuteTime(PermuteRows(prev[key], perm), perms)
        ELSE PermuteRows(prev[key], perm)]

\* d3po: shuffle a fresh view of orig_sample
ShufflePaired(orig, perm, perms) ==
    [key \in DOMAIN orig |->
        IF key = "timesteps" THEN RepeatPair(PermuteTime(PermuteRows(orig[key], perm), perms))
        ELSE IF key \in TimeKeys THEN PermuteTimePaired(PermuteRows(orig[key], perm), perms)
        ELSE PermuteRows(orig[key], perm)]

Shapes ==
    {sh \in [rl_algorithm : {"ddpo", "d3po"},
             total_batch_size : 1..MaxTrajectories,
             num_timesteps : 1..MaxSteps,
             train_batch_size : 1..MaxTrajectories] :
        /\ sh.total_batch_size * sh.num_timesteps <= MaxCells
        /\ sh.total_batch_size % sh.train_batch_size = 0}

IdleShuffle ==
    /\ shape = [rl_algorithm |-> "none"]
    /\ samples = <<>>
    /\ samples_batched = <<>>
    /\ shuffles = 0

\* epoch_loop where the inner epochs start: the samples of one epoch are collected
InitShuffle ==
    /\ shape \in Shapes
    /\ samples = CollectedSamples(shape)
    /\ samples_batched = <<>>
    /\ shuffles = 0

\* epoch_loop: the head of one inner epoch, from the shuffle to samples_batched
ReshuffleAndRebatch ==
    /\ shuffles < MaxShuffles
    /\ \E perm \in RandPerm(shape.total_batch_size) :
       \E perms \in [1..shape.total_batch_size -> RandPerm(shape.num_timesteps)] :
          LET shuffled == IF shape.rl_algorithm = "d3po"
                          THEN ShufflePaired(CollectedSamples(shape), perm, perms)
                          ELSE ShuffleSingle(samples, perm, perms)
          IN  /\ samples' = shuffled
              /\ samples_batched' =
                     [key \in DOMAIN shuffled |->
                         Rebatch(shuffled[key], shape.train_batch_size)]
    /\ shuffles' = shuffles + 1
    /\ UNCHANGED shape

(***************************************************************************)
(* Trainer._compare (d3po)                                                 *)
(***************************************************************************)
RewardValues == {8, 10, 20, 30}

\* reward batches of n rows: one-dimensional (a scalar per row) or with dim columns
RewardBatches1D(n) == [ndim : {1}, data : [1..n -> RewardValues]]
RewardBatches2D(n, dim) == [ndim : {2}, data : [1..n -> [1..dim -> RewardValues]]]

\* if len(a.shape) == 1: a = a[..., None]
Unsqueeze(a) == IF a.ndim = 1 THEN [k \in DOMAIN a.data |-> <<a.data[k]>>] ELSE a.data

\* the comparison without the strictness test torch.any(x < y, dim=1)
DominatesWeakly(x, y, k) == \A i \in DOMAIN x[k] : x[k][i] <= y[k][i]

\* the comparison with the order reversed (higher is better)
DominatesHigher(x, y, k) ==
    /\ \A i \in DOMAIN x[k] : x[k][i] >= y[k][i]
    /\ \E i \in DOMAIN x[k] : x[k][i] > y[k][i]

\* torch.logical_and(torch.all(x <= y, dim=1), torch.any(x < y, dim=1)), row k
Dominates(x, y, k) ==
    /\ \A i \in DOMAIN x[k] : x[k][i] <= y[k][i]
    /\ \E i \in DOMAIN x[k] : x[k][i] < y[k][i]

\* the comparison without the strictness test torch.any(x < y, dim=1)
_compare_nonstrict(a, b) ==
    LET a2 == Unsqueeze(a)
        b2 == Unsqueeze(b)
        c1 == [k \in DOMAIN a2 |->
                  IF \A i \in DOMAIN a2[k] : a2[k][i] <= b2[k][i] THEN <<-1, 1>> ELSE <<0, 0>>]
    IN  [k \in DOMAIN a2 |->
            IF \A i \in DOMAIN a2[k] : b2[k][i] <= a2[k][i] THEN <<1, -1>> ELSE c1[k]]

\* Trainer._compare(a, b)
_compare(a, b) ==
    LET a2 == Unsqueeze(a)
        b2 == Unsqueeze(b)
        zeros == [k \in DOMAIN a2 |-> <<0, 0>>]
        c1 == [k \in DOMAIN a2 |-> IF Dominates(a2, b2, k) THEN <<-1, 1>> ELSE zeros[k]]
    IN  [k \in DOMAIN a2 |-> IF Dominates(b2, a2, k) THEN <<1, -1>> ELSE c1[k]]

IdleCompare ==
    /\ cmp_a = [ndim |-> 0, data |-> <<>>]
    /\ cmp_b = [ndim |-> 0, data |-> <<>>]
    /\ cmp_c = <<>>
    /\ cmp_swapped = <<>>

InitCompare ==
    /\ \E n \in 1..MaxPairs :
          \/ /\ cmp_a \in RewardBatches1D(n)
             /\ cmp_b \in RewardBatches1D(n)
          \/ \E dim \in 1..MaxRewardDim :
                /\ n * dim <= MaxRewardCells
                /\ cmp_a \in RewardBatches2D(n, dim)
                /\ cmp_b \in RewardBatches2D(n, dim)
    /\ cmp_c = <<>>
    /\ cmp_swapped = <<>>

\* one call of _compare on the pair of reward batches
Compare ==
    /\ cmp_c = <<>>
    /\ cmp_c' = _compare(cmp_a, cmp_b)
    /\ UNCHANGED <<cmp_a, cmp_b, cmp_swapped>>

\* one call of _compare with the two batches exchanged
CompareSwapped ==
    /\ cmp_swapped = <<>>
    /\ cmp_swapped' = _compare(cmp_b, cmp_a)
    /\ UNCHANGED <<cmp_a, cmp_b, cmp_c>>

(***************************************************************************)
(* Trainer.step: the PPO-clip loss (ddpo)                                  *)
(* Real numbers are fixed-point integers, in units of 1 / One.             *)
(***************************************************************************)
One == 100

\* advantages and log-probabilities, in whole units
AdvantageValues == {-6, -1, 0, 2, 6}
LogProbValues == {-1, 0}

\* Config.train_adv_clip_max (whole units) and Config.train_clip_range (fixed point)
PpoConfigs == [train_adv_clip_max : {1, 5}, train_clip_range : {0, 20}]

RECURSIVE SumSeq(_)
SumSeq(q) == IF q = <<>> THEN 0 ELSE Head(q) + SumSeq(Tail(q))

\* torch.clamp(x, lo, hi)
TorchClamp(x, lo, hi) == IF x < lo THEN lo ELSE IF x > hi THEN hi ELSE x

\* torch.exp of a whole-unit argument, as a fixed-point value
TorchExp(d) == CASE d = -1 -> 37 [] d = 0 -> One [] d = 1 -> 272

Maximum(x, y) == IF x >= y THEN x ELSE y
Abs(x) == IF x < 0 THEN -x ELSE x

\* the advantages used without the clamp
UnclampedAdvantages(adv, cfg) == adv

\* advantages = torch.clamp(batch["advantages"], -train_adv_clip_max, train_adv_clip_max)
ClampAdvantages(adv, cfg) ==
    [k \in DOMAIN adv |-> TorchClamp(adv[k], -cfg.train_adv_clip_max, cfg.train_adv_clip_max)]

\* ratio = torch.exp(log_prob - batch["log_probs"][:, j])
Ratio(log_prob, log_probs) == [k \in DOMAIN log_prob |-> TorchExp(log_prob[k] - log_probs[k])]

\* torch.mean of a sequence of values of the given unit, as the fraction num / den
Mean(q, unit) == [num |-> SumSeq(q), den |-> Len(q) * unit]

\* loss = torch.mean(torch.maximum(-advantages * ratio, -advantages * clamp(ratio, 1 - e, 1 + e)))
PpoLoss(advantages, ratio, cfg) ==
    LET unclipped_loss == [k \in DOMAIN ratio |-> (-advantages[k]) * ratio[k]]
        clipped_loss == [k \in DOMAIN ratio |->
            (-advantages[k]) * TorchClamp(ratio[k], One - cfg.train_clip_range,
                                          One + cfg.train_clip_range)]
    IN  Mean([k \in DOMAIN ratio |-> Maximum(unclipped_loss[k], clipped_loss[k])], One)

\* clipfrac = torch.mean((torch.abs(ratio - 1.0) > train_clip_range).float())
ClipFrac(ratio, cfg) ==
    Mean([k \in DOMAIN ratio |-> IF Abs(ratio[k] - One) > cfg.train_clip_range THEN 1 ELSE 0], 1)

IdlePpo ==
    /\ ppo_config = <<>>
    /\ ppo_batch = <<>>
    /\ ppo_log_prob = <<>>
    /\ ppo_info = <<>>

InitPpo ==
    /\ ppo_config \in PpoConfigs
    /\ \E n \in 1..MaxPpoBatch :
          /\ ppo_batch \in [advantages : [1..n -> AdvantageValues],
                            log_probs : [1..n -> LogProbValues]]
          /\ ppo_log_prob \in [1..n -> LogProbValues]
    /\ ppo_info = <<>>

\* the loss computation of one timestep j of Trainer.step
PpoStep ==
    /\ ppo_info = <<>>
    /\ LET advantages == ClampAdvantages(ppo_batch.advantages, ppo_config)
           ratio == Ratio(ppo_log_prob, ppo_batch.log_probs)
       IN  ppo_info' = [ratio |-> ratio,
                        loss |-> PpoLoss(advantages, ratio, ppo_config),
                        clipfrac |-> ClipFrac(ratio, ppo_config)]
    /\ UNCHANGED <<ppo_config, ppo_batch, ppo_log_prob>>

(***************************************************************************)
(* start_train.main, Trainer.__init__ (resume and consistency checks) and  *)
(* Trainer.train, one action per epoch.  The prompt file is one the loader *)
(* can serve: it holds tier 1 and every tier has a prompt for every worker.*)
(***************************************************************************)
\* the names given on the command line: the three trainers and one that is none of them
AlgorithmNames == Algorithms \cup {"grpo"}

\* the digits of the names checkpoint_<digits>
Digits == {0, 1, 9}
DigitStrings == UNION {[1..n -> Digits] : n \in 1..MaxCheckpointDigits}

\* directory entries: checkpoint_<digits>, or a name without "checkpoint_"
CheckpointEntries == [stem : {"checkpoint_"}, digits : DigitStrings]
OtherEntries == [stem : {"logs"}, digits : {<<>>}]
Listings ==
    UNION {{{f[i] : i \in 1..n} : f \in [1..n -> CheckpointEntries \cup OtherEntries]} :
           n \in 0..MaxListing}

\* Config.num_epochs of the modelled runs
RunNumEpochs == {1, 3, 12}

RunConfigs ==
    [resume_from : {"", "root"},
     sample_batch_size : 1..3,
     sample_num_batches_per_epoch : {1},
     train_batch_size : 1..2,
     train_gradient_accumulation_steps : {1},
     train_num_inner_epochs : {1},
     num_epochs : RunNumEpochs,
     save_freq : {1, 2}]

NoEffects == [prompts |-> 0, trajectories |-> 0, optimizer_steps |-> 0, checkpoints |-> 0]
NoEntry == [stem |-> "", digits |-> <<>>]

\* int(x): the number a string of decimal digits denotes
RECURSIVE ParseInt(_)
ParseInt(d) == IF d = <<>> THEN 0 ELSE 10 * ParseInt(SubSeq(d, 1, Len(d) - 1)) + d[Len(d)]

\* the order of Python strings, on strings of digits
RECURSIVE StrLess(_, _)
StrLess(x, y) ==
    IF x = <<>> THEN y # <<>>
    ELSE IF y = <<>> THEN FALSE
    ELSE IF Head(x) # Head(y) THEN Head(x) < Head(y)
    ELSE StrLess(Tail(x), Tail(y))

\* filter(lambda x: "checkpoint_" in x, os.listdir(resume_from))
FilterCheckpoints(listing) == {x \in listing : x.stem = "checkpoint_"}

\* sorted(checkpoints)[-1]: the entries that can come last in the order of their names
LatestByName(checkpoints) ==
    {x \in checkpoints : \A y \in checkpoints : ~StrLess(x.digits, y.digits)}

\* sorted(checkpoints, key=lambda x: int(x.split("_")[-1]))[-1]: the entries that can
\* come last, whatever order os.listdir returned them in
LatestCheckpoints(checkpoints) ==
    {x \in checkpoints : \A y \in checkpoints : ParseInt(x.digits) >= ParseInt(y.digits)}

\* a main() that falls back to the PPO-clip Config
SelectConfigClassOrDefault(name) == IF name \in Algorithms THEN name ELSE "ddpo"

\* main(): the Config class of the algorithm named, or ValueError
SelectConfigClass(name) == IF name \in Algorithms THEN name ELSE "ValueError"

IdleRun ==
    /\ run_argv = <<>>
    /\ run_config = <<>>
    /\ run_listdir = {}
    /\ run_pc = "idle"
    /\ run_raised = "none"
    /\ run_resume_from = NoEntry
    /\ first_epoch = 0
    /\ run_epoch = 0
    /\ epochs_run = <<>>
    /\ effects = NoEffects

InitRun ==
    /\ run_argv \in [rl_algorithm : AlgorithmNames]
    /\ run_config \in RunConfigs
    /\ run_listdir \in Listings
    /\ run_config.resume_from = "" => run_listdir = {}
    /\ run_pc = "main"
    /\ run_raised = "none"
    /\ run_resume_from = NoEntry
    /\ first_epoch = 0
    /\ run_epoch = 0
    /\ epochs_run = <<>>
    /\ effects = NoEffects

RunRaise(exception) ==
    /\ run_pc' = "raised"
    /\ run_raised' = exception

\* start_train.main up to the construction of the trainer
Main ==
    /\ run_pc = "main"
    /\ IF SelectConfigClass(run_argv.rl_algorithm) = "ValueError"
       THEN RunRaise("ValueError")
       ELSE run_pc' = "init" /\ UNCHANGED run_raised
    /\ UNCHANGED <<run_argv, run_config, run_listdir, run_resume_from, first_epoch,
                   run_epoch, epochs_run, effects>>

\* Trainer.__init__: resume_from resolved to the latest checkpoint, the consistency
\* assertions, first_epoch; then the first lines of train()
Construct ==
    /\ run_pc = "init"
    /\ LET checkpoints == FilterCheckpoints(run_listdir)
       IN  IF run_config.resume_from # "" /\ checkpoints = {}
           THEN RunRaise("ValueError")
                /\ UNCHANGED <<run_resume_from, first_epoch, run_epoch>>
           ELSE IF ~StartupAssertions(run_config, 1)
           THEN RunRaise("AssertionError")
                /\ UNCHANGED <<run_resume_from, first_epoch, run_epoch>>
           ELSE /\ run_pc' = "train"
                /\ UNCHANGED run_raised
                /\ IF run_config.resume_from # ""
                   THEN \E latest \in LatestCheckpoints(checkpoints) :
                            /\ run_resume_from' = latest
                            /\ first_epoch' = ParseInt(latest.digits) + 1
                            /\ run_epoch' = ParseInt(latest.digits) + 1
                   ELSE /\ run_resume_from' = NoEntry
                        /\ first_epoch' = 0
                        /\ run_epoch' = 0
    /\ UNCHANGED <<run_argv, run_config, run_listdir, epochs_run, effects>>

\* one iteration of train(): epoch_loop(epoch, global_step)
RunEpoch ==
    /\ run_pc = "train"
    /\ run_epoch < run_config.num_epochs
    /\ LET algorithm == run_argv.rl_algorithm
           batch == run_config.sample_batch_size
           trajectories == IF algorithm = "d3po" THEN 2 * batch ELSE batch
       IN  IF ~BatchLoopBindsIndex(algorithm) \/ ~HasCpu(RewardsType(algorithm))
           THEN \* _sample raises in its first batch
                /\ RunRaise(IF ~BatchLoopBindsIndex(algorithm)
                            THEN "UnboundLocalError" ELSE "AttributeError")
                /\ effects' = [effects EXCEPT !.prompts = @ + batch,
                                              !.trajectories = @ + trajectories]
                /\ UNCHANGED <<run_epoch, epochs_run>>
           ELSE /\ effects' =
                       [prompts |-> effects.prompts + TotalBatchSize(run_config),
                        trajectories |-> effects.trajectories + TotalBatchSize(run_config),
                        optimizer_steps |-> effects.optimizer_steps
                            + run_config.train_num_inner_epochs
                              * (NumMinibatches(run_config)
                                 \div run_config.train_gradient_accumulation_steps),
                        checkpoints |-> effects.checkpoints
                            + (IF run_epoch % run_config.save_freq = 0 THEN 1 ELSE 0)]
                /\ epochs_run' = Append(epochs_run, run_epoch)
                /\ run_epoch' = run_epoch + 1
                /\ UNCHANGED <<run_pc, run_raised>>
    /\ UNCHANGED <<run_argv, run_config, run_listdir, run_resume_from, first_epoch>>

\* train() returns: range(first_epoch, num_epochs) is exhausted
RunFinish ==
    /\ run_pc = "train"
    /\ run_epoch >= run_config.num_epochs
    /\ run_pc' = "done"
    /\ UNCHANGED <<run_argv, run_config, run_listdir, run_raised, run_resume_from,
                   first_epoch, run_epoch, epochs_run, effects>>

(***************************************************************************)
(* epoch_loop: advantages from the rewards gathered across the workers     *)
(* (ddpo, dpok; per_prompt_stat_tracking off)                              *)
(***************************************************************************)
\* the rewards of single trajectories
TrajectoryRewards == {0, 1, 3}

RECURSIVE Concat(_, _)
\* torch.cat of the tensors of workers 0 .. n-1, in rank order
Concat(tensors, n) == IF n = 0 THEN <<>> ELSE Concat(tensors, n - 1) \o tensors[n - 1]

\* accelerator.gather(tensor): the tensors of all workers, concatenated in rank order
Gather(tensors) == Concat(tensors, adv_num_processes)

SumOfSquares(q) == SumSeq([k \in DOMAIN q |-> q[k] * q[k]])

\* (rewards - rewards.mean()) / (rewards.std() + 1e-8), element k, as the exact
\* numbers that determine it: n * (r - mean), n * n * variance and n
Normalize(rewards) ==
    [k \in DOMAIN rewards |->
        [deviation |-> Len(rewards) * rewards[k] - SumSeq(rewards),
         spread |-> Len(rewards) * SumOfSquares(rewards) - SumSeq(rewards) * SumSeq(rewards),
         count |-> Len(rewards)]]

\* an un-gather that keeps the first worker's rows
UngatherFirst(advantages, n, p) == SubSeq(advantages, 1, Len(advantages) \div n)

\* torch.as_tensor(advantages).reshape(num_processes, -1)[process_index]
Ungather(advantages, n, p) ==
    LET rowlen == Len(advantages) \div n
    IN  SubSeq(advantages, p * rowlen + 1, (p + 1) * rowlen)

IdleAdv ==
    /\ adv_num_processes = 1
    /\ adv_local_rewards = <<>>
    /\ adv_rewards = <<>>
    /\ adv_samples = <<>>

InitAdv ==
    /\ adv_num_processes \in 1..MaxProcs
    /\ \E local \in 1..MaxLocalSamples :
          adv_local_rewards \in [0..(adv_num_processes - 1) -> [1..local -> TrajectoryRewards]]
    /\ adv_rewards = [p \in 0..(adv_num_processes - 1) |-> <<>>]
    /\ adv_samples = [p \in 0..(adv_num_processes - 1) |-> <<>>]

\* _sample, on worker p: rewards = accelerator.gather(zip_samples["rewards"])
GatherRewards(p) ==
    /\ adv_rewards[p] = <<>>
    /\ adv_rewards' = [adv_rewards EXCEPT ![p] = Gather(adv_local_rewards)]
    /\ UNCHANGED <<adv_num_processes, adv_local_rewards, adv_samples>>

\* epoch_loop, on worker p: the advantages of the epoch and the rows kept for p
SetAdvantages(p) ==
    /\ adv_rewards[p] # <<>>
    /\ adv_samples[p] = <<>>
    /\ adv_samples' = [adv_samples EXCEPT
                          ![p] = Ungather(Normalize(adv_rewards[p]), adv_num_processes, p)]
    /\ UNCHANGED <<adv_num_processes, adv_local_rewards, adv_rewards>>

(***************************************************************************)
(* PerPromptStatTracker (train/trainer/common/state_tracker.py), as the    *)
(* specification describes it                                              *)
(***************************************************************************)
TrackedPrompts == {"p1", "p2"}
TrackedRewards == {1, 2, 4}

\* per_prompt_stat_tracking_buffer_size, per_prompt_stat_tracking_min_count
StatConfigs == [buffer_size : {1, 2, 4}, min_count : {1, 2, 3}]

NoCallYet == [prompts |-> <<>>, rewards |-> <<>>, advantages |-> <<>>, calls |-> 0]

\* the rewards of a call that belong to one prompt, in the order of the call
RECURSIVE RewardsOf(_, _, _)
RewardsOf(prompt, prompts, rewards) ==
    IF prompts = <<>> THEN <<>>
    ELSE (IF Head(prompts) = prompt THEN <<Head(rewards)>> ELSE <<>>)
             \o RewardsOf(prompt, Tail(prompts), Tail(rewards))

\* a buffer that, once full, keeps what it holds and drops what arrives
ExtendKeepOldest(buffer, new, capacity) ==
    LET all == buffer \o new
    IN  IF Len(all) <= capacity THEN all ELSE SubSeq(all, 1, capacity)

\* the ring buffer after the rewards of a call are appended: the oldest are evicted first
Extend(buffer, new, capacity) ==
    LET all == buffer \o new
    IN  IF Len(all) <= capacity THEN all ELSE SubSeq(all, Len(all) - capacity + 1, Len(all))

\* (r - mean) / (std + eps) against the rewards of population, as the exact numbers
\* that determine it: n * (r - mean), n * n * variance and n
Standardize(r, population) ==
    [deviation |-> Len(population) * r - SumSeq(population),
     spread |-> Len(population) * SumOfSquares(population)
                    - SumSeq(population) * SumSeq(population),
     count |-> Len(population)]

\* a tracker that always uses the batch of the call as the baseline
BaselineOfBatch(buffer, rewards, cfg) == rewards

\* the rewards whose mean and std normalise the rewards of a prompt: those of the
\* whole call while the prompt's buffer holds fewer than min_count, then the buffer
Baseline(buffer, rewards, cfg) == IF Len(buffer) < cfg.min_count THEN rewards ELSE buffer

\* PerPromptStatTracker.update(prompts, rewards): the buffers after the call and
\* the advantages it returns
StatBuffersAfter(stats, prompts, rewards, cfg) ==
    [p \in TrackedPrompts |-> Extend(stats[p], RewardsOf(p, prompts, rewards), cfg.buffer_size)]

StatAdvantages(stats, prompts, rewards, cfg) ==
    LET after == StatBuffersAfter(stats, prompts, rewards, cfg)
    IN  [k \in DOMAIN rewards |->
            Standardize(rewards[k], Baseline(after[prompts[k]], rewards, cfg))]

IdleStat ==
    /\ st_config = <<>>
    /\ st_stats = <<>>
    /\ st_fed = <<>>
    /\ st_call = NoCallYet

InitStat ==
    /\ st_config \in StatConfigs
    /\ st_stats = [p \in TrackedPrompts |-> <<>>]
    /\ st_fed = [p \in TrackedPrompts |-> <<>>]
    /\ st_call = NoCallYet

\* the number of rewards fed so far
TotalFed == Len(st_fed["p1"]) + Len(st_fed["p2"])

\* one call advantages = stat_tracker.update(prompts, rewards)
StatUpdate(prompts, rewards) ==
    /\ Len(prompts) = Len(rewards)
    /\ TotalFed + Len(rewards) <= MaxFed
    /\ st_stats' = StatBuffersAfter(st_stats, prompts, rewards, st_config)
    /\ st_fed' = [p \in TrackedPrompts |-> st_fed[p] \o RewardsOf(p, prompts, rewards)]
    /\ st_call' = [prompts |-> prompts, rewards |-> rewards,
                   advantages |-> StatAdvantages(st_stats, prompts, rewards, st_config),
                   calls |-> IF st_call.calls < 2 THEN st_call.calls + 1 ELSE 2]
    /\ UNCHANGED st_config

(***************************************************************************)
(* d3po Trainer: the trainable policy and the reference copy.  Modules are *)
(* objects on a heap, so that a copy and an alias differ.                  *)
(***************************************************************************)
\* the weights from_pretrained loads, those of a fresh adapter, those of a checkpoint
PretrainedWeights == 0
NoAdapter == 0
CheckpointWeights == 5
Gradients == {-1, 1}

D3poConfigs ==
    [use_lora : BOOLEAN, resume_from : {"", "checkpoint"}, accumulation_steps : 1..MaxAccum]

NoModule == [base |-> -1, lora |-> -1, has_lora |-> FALSE, requires_grad |-> "none"]

\* UNet2DConditionModel.from_pretrained(...); unet.requires_grad_(not use_lora)
PretrainedUNet(cfg) ==
    [base |-> PretrainedWeights, lora |-> NoAdapter, has_lora |-> FALSE,
     requires_grad |-> IF cfg.use_lora THEN "none" ELSE "base"]

\* for param in module.parameters(): param.requires_grad = False
Freeze(module) == [module EXCEPT !.requires_grad = "none"]

\* unet.add_adapter(unet_lora_config): new trainable LoRA parameters
AddAdapter(module) == [module EXCEPT !.has_lora = TRUE, !.requires_grad = "lora"]

\* _load_model_hook: the saved LoRA layers, or the saved UNet, loaded into the module
LoadState(module, cfg) ==
    IF cfg.use_lora THEN [module EXCEPT !.lora = CheckpointWeights]
    ELSE [module EXCEPT !.base = CheckpointWeights]

\* self.ref = self.sd_pipeline.unet: the same object under a second name
SameObject(id) == id

\* copy.deepcopy(module): a new object
DeepCopy(id) == id + 1

\* optimizer.step() on one module: the parameters that hold a gradient move against it
Stepped(module, grad) ==
    IF grad = <<>> THEN module
    ELSE IF module.requires_grad = "base" THEN [module EXCEPT !.base = @ - grad[1]]
    ELSE IF module.requires_grad = "lora" THEN [module EXCEPT !.lora = @ - grad[1]]
    ELSE module

\* loss.backward() on one module: gradients reach the parameters that require them
Accumulated(module, grad, g) ==
    IF module.requires_grad = "none" THEN grad
    ELSE IF grad = <<>> THEN <<g>> ELSE <<grad[1] + g>>

IdleRef ==
    /\ d3_config = <<>>
    /\ d3_heap = <<>>
    /\ d3_unet = 0
    /\ d3_ref = 0
    /\ d3_ref_created = NoModule
    /\ d3_optimizer = {}
    /\ d3_grad = <<>>
    /\ d3_accel_step = 0
    /\ d3_backwards = 0
    /\ d3_pc = "idle"

InitRef ==
    /\ d3_config \in D3poConfigs
    /\ d3_heap = [id \in 1..2 |-> NoModule]
    /\ d3_unet = 0
    /\ d3_ref = 0
    /\ d3_ref_created = NoModule
    /\ d3_optimizer = {}
    /\ d3_grad = [id \in 1..2 |-> <<>>]
    /\ d3_accel_step = 0
    /\ d3_backwards = 0
    /\ d3_pc = "new"

\* Trainer.__init__ of d3po: pipeline, reference copy, adapter, optimizer, resume
D3poConstruct ==
    /\ d3_pc = "new"
    /\ LET unet == 1
           ref == DeepCopy(unet)
           loaded == [d3_heap EXCEPT ![unet] = PretrainedUNet(d3_config)]
           copied == [loaded EXCEPT ![ref] = loaded[unet]]
           frozen == [copied EXCEPT ![ref] = Freeze(@)]
           adapted == IF d3_config.use_lora
                      THEN [frozen EXCEPT ![unet] = AddAdapter(@)] ELSE frozen
           resumed == IF d3_config.resume_from # ""
                      THEN [adapted EXCEPT ![unet] = LoadState(@, d3_config)] ELSE adapted
       IN  /\ d3_unet' = unet
           /\ d3_ref' = ref
           /\ d3_ref_created' = frozen[ref]
           /\ d3_optimizer' = {unet}
           /\ d3_heap' = resumed
    /\ d3_pc' = "train"
    /\ UNCHANGED <<d3_config, d3_grad, d3_accel_step, d3_backwards>>

\* one timestep of Trainer.step of d3po: both policies evaluated, backward, and the
\* optimizer step and zero_grad that take effect when the gradients are synchronised
D3poTrainTimestep(g) ==
    /\ d3_pc = "train"
    /\ d3_backwards < MaxBackwards
    /\ LET step == AccumulateStep(d3_accel_step)
           sync == SyncGradients(step, d3_config.accumulation_steps)
           evaluated == {d3_unet, d3_ref}
           grads == [id \in 1..2 |->
                        IF id \in evaluated THEN Accumulated(d3_heap[id], d3_grad[id], g)
                        ELSE d3_grad[id]]
       IN  /\ d3_accel_step' = step
           /\ IF sync
              THEN /\ d3_heap' = [id \in 1..2 |->
                                     IF id \in d3_optimizer THEN Stepped(d3_heap[id], grads[id])
                                     ELSE d3_heap[id]]
                   /\ d3_grad' = [id \in 1..2 |-> IF id \in d3_optimizer THEN <<>> ELSE grads[id]]
              ELSE /\ d3_heap' = d3_heap
                   /\ d3_grad' = grads
    /\ d3_backwards' = d3_backwards + 1
    /\ UNCHANGED <<d3_config, d3_unet, d3_ref, d3_ref_created, d3_optimizer, d3_pc>>

(***************************************************************************)
(* epoch_loop on N workers: inner epochs, then the end-of-epoch barrier    *)
(* and save_state() (ddpo, dpok)                                           *)
(***************************************************************************)
SaveConfigs ==
    [num_epochs : 1..MaxEpochs, train_num_inner_epochs : 0..MaxInnerEpochs, save_freq : {1, 2}]

SaveWorkers == 0..(sv_num_processes - 1)


\* a wait_for_everyone() that returns at once
BarrierOpen(p) == TRUE

\* accelerator.wait_for_everyone() returns on worker p: every worker has made as many
\* calls of it as p
BarrierPassed(p) == \A q \in SaveWorkers : sv_barriers[q] >= sv_barriers[p]

IdleSave ==
    /\ sv_num_processes = 1
    /\ sv_config = <<>>
    /\ sv_pc = <<>>
    /\ sv_epoch = <<>>
    /\ sv_inner_epoch = <<>>
    /\ sv_barriers = <<>>
    /\ sv_saved = <<>>
    /\ sv_decided = <<>>

InitSave ==
    /\ sv_num_processes \in 1..MaxProcs
    /\ sv_config \in SaveConfigs
    /\ sv_pc = [p \in SaveWorkers |-> "sample"]
    /\ sv_epoch = [p \in SaveWorkers |-> 0]
    /\ sv_inner_epoch = [p \in SaveWorkers |-> 0]
    /\ sv_barriers = [p \in SaveWorkers |-> 0]
    /\ sv_saved = [p \in SaveWorkers |-> {}]
    /\ sv_decided = [p \in SaveWorkers |-> [e \in {} |-> "skip"]]

\* train(): the next iteration of range(first_epoch, num_epochs), or the return
NextEpoch(p, e) ==
    /\ sv_epoch' = [sv_epoch EXCEPT ![p] = e + 1]
    /\ sv_inner_epoch' = [sv_inner_epoch EXCEPT ![p] = 0]
    /\ sv_pc' = [sv_pc EXCEPT ![p] = IF e + 1 < sv_config.num_epochs THEN "sample" ELSE "done"]

\* epoch_loop, worker p: _sample and the advantages of the epoch
SaveSample(p) ==
    /\ sv_pc[p] = "sample"
    /\ sv_pc' = [sv_pc EXCEPT ![p] = "train"]
    /\ UNCHANGED <<sv_num_processes, sv_config, sv_epoch, sv_inner_epoch, sv_barriers,
                   sv_saved, sv_decided>>

\* epoch_loop, worker p: one inner epoch of training
SaveInnerEpoch(p) ==
    /\ sv_pc[p] = "train"
    /\ sv_inner_epoch[p] < sv_config.train_num_inner_epochs
    /\ sv_inner_epoch' = [sv_inner_epoch EXCEPT ![p] = @ + 1]
    /\ UNCHANGED <<sv_num_processes, sv_config, sv_pc, sv_epoch, sv_barriers, sv_saved,
                   sv_decided>>

\* epoch_loop, worker p, after the inner epochs: the save test; wait_for_everyone()
\* is entered if a checkpoint is due, else epoch_loop returns
SaveEndEpoch(p) ==
    /\ sv_pc[p] = "train"
    /\ sv_inner_epoch[p] >= sv_config.train_num_inner_epochs
    /\ LET e == sv_epoch[p]
       IN  IF SaveDue(e, sv_config)
           THEN /\ sv_pc' = [sv_pc EXCEPT ![p] = "barrier"]
                /\ sv_barriers' = [sv_barriers EXCEPT ![p] = @ + 1]
                /\ sv_decided' = [sv_decided EXCEPT ![p] =
                       [x \in DOMAIN @ \cup {e} |-> IF x = e THEN "save" ELSE @[x]]]
                /\ UNCHANGED <<sv_epoch, sv_inner_epoch>>
           ELSE /\ NextEpoch(p, e)
                /\ sv_decided' = [sv_decided EXCEPT ![p] =
                       [x \in DOMAIN @ \cup {e} |-> IF x = e THEN "skip" ELSE @[x]]]
                /\ UNCHANGED sv_barriers
    /\ UNCHANGED <<sv_num_processes, sv_config, sv_saved>>

\* epoch_loop, worker p: wait_for_everyone() returns, save_state(), return
SaveState(p) ==
    /\ sv_pc[p] = "barrier"
    /\ BarrierPassed(p)
    /\ sv_saved' = [sv_saved EXCEPT ![p] = @ \cup {sv_epoch[p]}]
    /\ NextEpoch(p, sv_epoch[p])
    /\ UNCHANGED <<sv_num_processes, sv_config, sv_barriers, sv_decided>>

(***************************************************************************)
(* epoch_loop and step: the inner training epochs of one epoch, for the    *)
(* three trainers.  The accelerator counts the timesteps and reports a     *)
(* sync once per accumulation window; the prepared optimizer steps and     *)
(* clears the gradients only on a sync.                                    *)
(***************************************************************************)
\* ddpo reads train_gradient_accumulation_steps, dpok gradient_accumulation_steps,
\* and the d3po Config has both fields (num_inner_epochs is train_num_inner_epochs
\* in ddpo)
InnerConfigs ==
    [rl_algorithm : Algorithms,
     sample_batch_size : 1..MaxSampleBatch,
     sample_num_batches_per_epoch : 1..MaxNumBatches,
     train_batch_size : 1..MaxSampleBatch,
     train_gradient_accumulation_steps : 1..MaxAccum,
     gradient_accumulation_steps : 1..MaxAccum,
     num_train_timesteps : 1..MaxTimesteps,
     num_inner_epochs : 1..MaxInnerEpochs]

\* Trainer.__init__: the field multiplied into the Accelerator's window and into
\* total_train_batch_size
ConfiguredAccumulation(cfg) ==
    IF cfg.rl_algorithm = "dpok" THEN cfg.gradient_accumulation_steps
    ELSE cfg.train_gradient_accumulation_steps

\* the configuration as __init__ reads it
AsConfigured(cfg) ==
    [cfg EXCEPT !.train_gradient_accumulation_steps = ConfiguredAccumulation(cfg)]

\* step: the field its assertion divides by
AssertedAccumulation(cfg) ==
    IF cfg.rl_algorithm = "ddpo" THEN cfg.train_gradient_accumulation_steps
    ELSE cfg.gradient_accumulation_steps

\* epoch_loop: the argument it hands to step() for the i-th minibatch: the index of
\* enumerate(samples_batched) in ddpo and dpok, the row offset of
\* range(0, total_batch_size, train_batch_size) in d3po
StepArgument(i, cfg) ==
    IF cfg.rl_algorithm = "d3po" THEN i * cfg.train_batch_size ELSE i

\* step: the assertion made when the accelerator reports a sync
StepSyncAssertion(j, step, cfg) ==
    /\ j = cfg.num_train_timesteps - 1
    /\ (step + 1) % AssertedAccumulation(cfg) = 0

\* a step that clips the gradient norm at every timestep
ClipAlways(sync) == TRUE

\* step: `if self.accelerator.sync_gradients:` around clip_grad_norm_
ClipWhenSynced(sync) == sync

\* step: backward, the guarded clip_grad_norm_, optimizer.step() and
\* optimizer.zero_grad(); the prepared optimizer skips both calls without a sync
GradientEvents(sync) ==
    <<"backward">>
        \o (IF ClipWhenSynced(sync) THEN <<"clip_grad_norm_">> ELSE <<>>)
        \o (IF sync THEN <<"optimizer.step", "zero_grad">> ELSE <<>>)

Count(q, e) == Cardinality({k \in DOMAIN q : q[k] = e})

NoTotals == [backward |-> 0, clip |-> 0, optimizer_step |-> 0, zero_grad |-> 0]
NoSync == [j |-> -1, step |-> -1, tested |-> -1, window |-> 0]

IdleInner ==
    /\ tr_config = <<>>
    /\ tr_pc = "idle"
    /\ tr_raised = "none"
    /\ tr_inner_epoch = 0
    /\ tr_i = 0
    /\ tr_j = 0
    /\ tr_accel = NewAccel
    /\ tr_events = <<>>
    /\ tr_totals = NoTotals
    /\ tr_grads = 0
    /\ tr_sync = NoSync

\* the trainer before __init__ has checked its configuration
InitInner ==
    /\ tr_config \in InnerConfigs
    /\ tr_config.rl_algorithm = "ddpo" => tr_config.gradient_accumulation_steps = 1
    /\ tr_config.rl_algorithm = "dpok" => tr_config.train_gradient_accumulation_steps = 1
    /\ tr_pc = "new"
    /\ tr_raised = "none"
    /\ tr_inner_epoch = 0
    /\ tr_i = 0
    /\ tr_j = 0
    /\ tr_accel = NewAccel
    /\ tr_events = <<>>
    /\ tr_totals = NoTotals
    /\ tr_grads = 0
    /\ tr_sync = NoSync

InnerFail(exception) ==
    /\ tr_pc' = "error"
    /\ tr_raised' = exception

\* Trainer.__init__ (the checks) and the entry of train()
InnerInit ==
    /\ tr_pc = "new"
    /\ IF StartupAssertions(AsConfigured(tr_config), 1)
       THEN /\ tr_pc' = "sample"
            /\ UNCHANGED tr_raised
       ELSE InnerFail("AssertionError:config")
    /\ UNCHANGED <<tr_config, tr_inner_epoch, tr_i, tr_j, tr_accel, tr_events, tr_totals,
                   tr_grads, tr_sync>>

\* epoch_loop: _sample, which raises in its first batch where the batch loop does not
\* bind i (global_step + i) or the rewards have no cpu() (rewards.mean().cpu()), and
\* otherwise returns the samples of the epoch; epoch_loop then enters its first
\* inner epoch
InnerSample ==
    /\ tr_pc = "sample"
    /\ IF ~BatchLoopBindsIndex(tr_config.rl_algorithm)
       THEN InnerFail("UnboundLocalError")
       ELSE IF ~HasCpu(RewardsType(tr_config.rl_algorithm))
       THEN InnerFail("AttributeError")
       ELSE /\ tr_pc' = "step"
            /\ UNCHANGED tr_raised
    /\ UNCHANGED <<tr_config, tr_inner_epoch, tr_i, tr_j, tr_accel, tr_events, tr_totals,
                   tr_grads, tr_sync>>

\* step: one timestep j of the minibatch i
InnerTimestep ==
    /\ tr_pc = "step"
    /\ LET step == AccumulateStep(tr_accel.step)
           sync == SyncGradients(step, AccumulationSteps(AsConfigured(tr_config)))
           events == GradientEvents(sync)
           argument == StepArgument(tr_i, tr_config)
           last == tr_j + 1 = tr_config.num_train_timesteps
       IN  /\ tr_accel' = [tr_accel EXCEPT !.step = step, !.sync_gradients = sync]
           /\ tr_events' = events
           /\ tr_totals' = [backward |-> tr_totals.backward + Count(events, "backward"),
                            clip |-> tr_totals.clip + Count(events, "clip_grad_norm_"),
                            optimizer_step |->
                                tr_totals.optimizer_step + Count(events, "optimizer.step"),
                            zero_grad |-> tr_totals.zero_grad + Count(events, "zero_grad")]
           /\ tr_grads' = IF Count(events, "zero_grad") > 0 THEN 0 ELSE tr_grads + 1
           /\ tr_sync' = IF sync
                         THEN [j |-> tr_j, step |-> argument,
                               tested |-> (argument + 1) % AssertedAccumulation(tr_config),
                               window |-> tr_grads + 1]
                         ELSE tr_sync
           /\ IF sync /\ ~StepSyncAssertion(tr_j, argument, tr_config)
              THEN /\ InnerFail("AssertionError:sync")
                   /\ UNCHANGED <<tr_i, tr_j>>
              ELSE /\ tr_j' = IF last THEN 0 ELSE tr_j + 1
                   /\ tr_i' = IF last THEN tr_i + 1 ELSE tr_i
                   /\ tr_pc' = IF last /\ tr_i + 1 = NumMinibatches(tr_config)
                               THEN "inner_end" ELSE "step"
                   /\ UNCHANGED tr_raised
    /\ UNCHANGED <<tr_config, tr_inner_epoch>>

\* epoch_loop: the assertion that ends an inner epoch, and the next inner epoch
InnerEndInnerEpoch ==
    /\ tr_pc = "inner_end"
    /\ IF tr_accel.sync_gradients
       THEN /\ tr_inner_epoch' = tr_inner_epoch + 1
            /\ tr_pc' = IF tr_inner_epoch + 1 < tr_config.num_inner_epochs
                        THEN "step" ELSE "done"
            /\ tr_i' = 0
            /\ tr_j' = 0
            /\ UNCHANGED tr_raised
       ELSE /\ InnerFail("AssertionError:inner_epoch")
            /\ UNCHANGED <<tr_inner_epoch, tr_i, tr_j>>
    /\ UNCHANGED <<tr_config, tr_accel, tr_events, tr_totals, tr_grads, tr_sync>>

(***************************************************************************)
(* d3po _sample: one batch of paired trajectories                          *)
(***************************************************************************)
MaxPairCells == 4

Latents == {0, 1}
\* where the cursor of the prompt source can stand when the batch begins
PairCursors == {0, 1}

PairConfigs ==
    {c \in [sample_batch_size : 1..MaxPairCells, sample_num_steps : 1..MaxPairCells] :
        c.sample_batch_size * c.sample_num_steps <= MaxPairCells}

\* text_encoder(tokenizer(prompts))[0]: one embedding per prompt, a function of its text
TextEncoder(prompts) == [b \in DOMAIN prompts |-> <<"embeds", prompts[b]>>]

\* scheduler.timesteps after set_timesteps(num_steps): num_steps decreasing timesteps
SchedulerTimesteps(num_steps) == [k \in 1..num_steps |-> num_steps - k]

\* what pipeline_with_logprob can return for n prompts: num_steps + 1 latents and
\* num_steps log-probabilities per prompt; the first latent is the one passed as
\* latents= when one is passed, fresh noise otherwise, and every later latent depends
\* on the noise of its step
PipelineOutputs(n, num_steps, latents) ==
    {[latents |-> l,
      log_probs |-> [b \in 1..n |-> [k \in 1..num_steps |-> <<"log_prob", l[b][k], l[b][k + 1]>>]]] :
        l \in {x \in [1..n -> [1..(num_steps + 1) -> Latents]] :
                  latents # <<>> => \A b \in 1..n : x[b][1] = latents[1][b]}}

\* latents1[:, 0, :, :, :]
InitialLatents(rollout) == [b \in DOMAIN rollout.latents |-> rollout.latents[b][1]]

\* torch.stack([x1, x2], dim=1)
StackPair(x1, x2) == [b \in DOMAIN x1 |-> <<x1[b], x2[b]>>]

\* latents[:, :, :-1] and latents[:, :, 1:]
AllButLast(q) == SubSeq(q, 1, Len(q) - 1)
AllButFirst(q) == SubSeq(q, 2, Len(q))

IdlePair ==
    /\ ps_config = <<>>
    /\ ps_pc = "idle"
    /\ ps_raised = "none"
    /\ ps_prompts = <<>>
    /\ ps_prompt_embeds = <<>>
    /\ ps_rollouts = <<>>
    /\ ps_sample = <<>>

InitPair ==
    /\ ps_config \in PairConfigs
    /\ ps_pc = "new"
    /\ ps_raised = "none"
    /\ ps_prompts = <<>>
    /\ ps_prompt_embeds = <<>>
    /\ ps_rollouts = <<>>
    /\ ps_sample = <<>>

\* the prompts of the batch, drawn one after the other, and their embeddings
PairDrawPrompts ==
    /\ ps_pc = "new"
    /\ \E cursor \in PairCursors :
           LET prompts1 == [b \in 1..ps_config.sample_batch_size |-> cursor + b - 1]
               prompts2 == prompts1
           IN
           /\ ps_prompts' = <<prompts1, prompts2>>
           /\ ps_prompt_embeds' = <<TextEncoder(prompts1), TextEncoder(prompts2)>>
    /\ ps_pc' = "prompts"
    /\ UNCHANGED <<ps_config, ps_raised, ps_rollouts, ps_sample>>

\* the first rollout of every prompt, from fresh noise
PairSampleFirst ==
    /\ ps_pc = "prompts"
    /\ \E out \in PipelineOutputs(ps_config.sample_batch_size, ps_config.sample_num_steps, <<>>) :
           ps_rollouts' = <<out>>
    /\ ps_pc' = "first"
    /\ UNCHANGED <<ps_config, ps_raised, ps_prompts, ps_prompt_embeds, ps_sample>>

\* a second rollout that is not given the first one's initial latents
PairSampleSecondFresh ==
    /\ ps_pc = "first"
    /\ \E out \in PipelineOutputs(ps_config.sample_batch_size, ps_config.sample_num_steps, <<>>) :
           ps_rollouts' = Append(ps_rollouts, out)
    /\ ps_pc' = "second"
    /\ UNCHANGED <<ps_config, ps_raised, ps_prompts, ps_prompt_embeds, ps_sample>>

\* the second rollout of every prompt, from the first latents of the first rollout
PairSampleSecond ==
    /\ ps_pc = "first"
    /\ \E out \in PipelineOutputs(ps_config.sample_batch_size, ps_config.sample_num_steps,
                                  <<InitialLatents(ps_rollouts[1])>>) :
           ps_rollouts' = Append(ps_rollouts, out)
    /\ ps_pc' = "second"
    /\ UNCHANGED <<ps_config, ps_raised, ps_prompts, ps_prompt_embeds, ps_sample>>

\* the tensors of the batch: the two rollouts stacked along a new axis 1
PairStack ==
    /\ ps_pc = "second"
    /\ LET latents == StackPair(ps_rollouts[1].latents, ps_rollouts[2].latents)
           n == ps_config.sample_batch_size
       IN  ps_sample' =
               [prompt_embeds |-> StackPair(ps_prompt_embeds[1], ps_prompt_embeds[2]),
                prompts |-> ps_prompts[1],
                timesteps |-> [b \in 1..n |-> SchedulerTimesteps(ps_config.sample_num_steps)],
                latents |-> [b \in 1..n |-> <<AllButLast(latents[b][1]), AllButLast(latents[b][2])>>],
                next_latents |-> [b \in 1..n |-> <<AllButFirst(latents[b][1]), AllButFirst(latents[b][2])>>],
                log_probs |-> StackPair(ps_rollouts[1].log_probs, ps_rollouts[2].log_probs)]
    /\ ps_pc' = "stacked"
    /\ UNCHANGED <<ps_config, ps_raised, ps_prompts, ps_prompt_embeds, ps_rollouts>>

\* the rewards of the batch are a numpy array, whose mean has no cpu()
PairFeedCurriculum ==
    /\ ps_pc = "stacked"
    /\ ps_pc' = "error"
    /\ ps_raised' = "AttributeError"
    /\ UNCHANGED <<ps_config, ps_prompts, ps_prompt_embeds, ps_rollouts, ps_sample>>

(***************************************************************************)
(* d3po step: the pairwise-preference loss of one timestep.                *)
(* Real numbers are fixed-point integers, in units of 1 / One.             *)
(***************************************************************************)
MaxLossPairs == 2

\* rewards of a trajectory, and total_prob - total_ref_prob (fixed point)
PairRewardValues == {10, 20}
LogRatioValues == {-100, 0, 5}

\* Config.train_eps (fixed point) and Config.train_beta (whole units)
LossConfigs == [train_eps : {10, 20}, train_beta : {1, 2}]

\* torch.exp of a fixed-point argument
ExpFixed(d) == CASE d = -100 -> 37 [] d = -5 -> 95 [] d = 0 -> One [] d = 5 -> 105 [] d = 100 -> 272

\* torch.log of a fixed-point ratio of the clamped range
LogFixed(r) ==
    CASE r = 80 -> -22 [] r = 90 -> -11 [] r = 95 -> -5 [] r = One -> 0
      [] r = 105 -> 5 [] r = 110 -> 10 [] r = 120 -> 18

\* torch.clamp(torch.exp(total_prob - total_ref_prob), 1 - train_eps, 1 + train_eps)
ClippedRatio(d, cfg) == TorchClamp(ExpFixed(d), One - cfg.train_eps, One + cfg.train_eps)

\* a sigmoid argument that leaves the preference out
SigmoidArgumentUnweighted(ratio_0, ratio_1, prefer, cfg) ==
    cfg.train_beta * LogFixed(ratio_0) + cfg.train_beta * LogFixed(ratio_1)

\* train_beta * log(ratio_0) * human_prefer[:, 0] + train_beta * log(ratio_1) * human_prefer[:, 1]
SigmoidArgument(ratio_0, ratio_1, prefer, cfg) ==
    cfg.train_beta * LogFixed(ratio_0) * prefer[1] + cfg.train_beta * LogFixed(ratio_1) * prefer[2]

\* -torch.log(torch.sigmoid(x)) = log(1 + exp(-x)), to the second order around 0
NegLogSigmoid(x) == 69 - (x \div 2) + ((x * x) \div 800)

\* the derivative of -log(sigmoid(x)), -sigmoid(-x), to the first order around 0
NegLogSigmoidSlope(x) == -(50 - (x \div 4))

\* the derivative of log(clamp(exp(d), lo, hi)) in d: 1 inside the range, 0 where clamped
ClampPasses(d, cfg) ==
    IF ExpFixed(d) >= One - cfg.train_eps /\ ExpFixed(d) <= One + cfg.train_eps THEN 1 ELSE 0

\* loss.backward(): the gradient of the pair's loss in total_prob_0 and total_prob_1
PairGradient(x, d, prefer, cfg) ==
    [m \in 1..2 |-> NegLogSigmoidSlope(x) * cfg.train_beta * prefer[m] * ClampPasses(d[m], cfg)]

\* value[step: step + train_batch_size, m] of the rewards
PairRewards(rewards, m) == [ndim |-> 1, data |-> [k \in DOMAIN rewards |-> rewards[k][m]]]

IdleLoss ==
    /\ pl_config = <<>>
    /\ pl_rewards = <<>>
    /\ pl_log_ratios = <<>>
    /\ pl_out = <<>>

InitLoss ==
    /\ pl_config \in LossConfigs
    /\ \E n \in 1..MaxLossPairs :
          /\ pl_rewards \in [1..n -> [1..2 -> PairRewardValues]]
          /\ pl_log_ratios \in [1..n -> [1..2 -> LogRatioValues]]
    /\ pl_out = <<>>

\* the loss of one timestep of Trainer.step and its backward pass
PairLoss ==
    /\ pl_out = <<>>
    /\ LET human_prefer == _compare(PairRewards(pl_rewards, 1), PairRewards(pl_rewards, 2))
           ratio_0 == [k \in DOMAIN pl_rewards |-> ClippedRatio(pl_log_ratios[k][1], pl_config)]
           ratio_1 == [k \in DOMAIN pl_rewards |-> ClippedRatio(pl_log_ratios[k][2], pl_config)]
           x == [k \in DOMAIN pl_rewards |->
                    SigmoidArgument(ratio_0[k], ratio_1[k], human_prefer[k], pl_config)]
           losses == [k \in DOMAIN pl_rewards |-> NegLogSigmoid(x[k])]
       IN  pl_out' = <<[human_prefer |-> human_prefer,
                        ratio_0 |-> ratio_0,
                        ratio_1 |-> ratio_1,
                        argument |-> x,
                        losses |-> losses,
                        loss |-> Mean(losses, One),
                        grad |-> [k \in DOMAIN pl_rewards |->
                                     PairGradient(x[k], pl_log_ratios[k], human_prefer[k],
                                                  pl_config)]]>>
    /\ UNCHANGED <<pl_config, pl_rewards, pl_log_ratios>>

(***************************************************************************)
(* Specifications                                                          *)
(***************************************************************************)
IdleLast == IdleInner /\ IdlePair /\ IdleLoss

IdleLater == IdlePpo /\ IdleRun /\ IdleAdv /\ IdleStat /\ IdleRef /\ IdleSave /\ IdleLast

InitLoader == LoaderInit(Ladders) /\ IdleTrainer /\ IdleShuffle /\ IdleCompare /\ IdleLater

NextLoader ==
    \/ \E p \in 0..(num_processes - 1) :
           LoaderNext(p) /\ UNCHANGED <<trainVars, shuffleVars, compareVars, laterVars>>
    \/ \E p \in 0..(num_processes - 1) : \E d \in DifficultyValues :
           LoaderSetDifficulty(p, d) /\ UNCHANGED <<trainVars, shuffleVars, compareVars, laterVars>>

SpecLoader == InitLoader /\ [][NextLoader]_vars

\* the prompt files of the trainer runs: every tier holds MaxTierLen prompts
TrainLadders == {l \in Ladders : \A d \in DOMAIN l : Len(l[d]) = MaxTierLen}

InitTrain == LoaderInit(TrainLadders) /\ InitTrainer /\ IdleShuffle /\ IdleCompare /\ IdleLater

NextTrain ==
    \/ TrainerInit /\ UNCHANGED <<shuffleVars, compareVars, laterVars>>
    \/ DrawPrompt /\ UNCHANGED <<shuffleVars, compareVars, laterVars>>
    \/ \E reward \in RewardMeans : FinishBatch(reward) /\ UNCHANGED <<shuffleVars, compareVars, laterVars>>
    \/ EndSampling /\ UNCHANGED <<shuffleVars, compareVars, laterVars>>
    \/ BeginInnerEpoch /\ UNCHANGED <<shuffleVars, compareVars, laterVars>>
    \/ TrainTimestep /\ UNCHANGED <<shuffleVars, compareVars, laterVars>>
    \/ EndInnerEpoch /\ UNCHANGED <<shuffleVars, compareVars, laterVars>>
    \/ EndEpoch /\ UNCHANGED <<shuffleVars, compareVars, laterVars>>

SpecTrain == InitTrain /\ [][NextTrain]_vars

\* the loader of the specifications that do not draw prompts
IdleLoader ==
    /\ num_processes = 1
    /\ difficulty_to_prompts = <<>>
    /\ difficulty_to_prompts_idx = <<>>
    /\ current_difficulty = <<>>
    /\ drawn = <<>>
    /\ last_call = <<>>
    /\ raised = <<>>

InitShuffleSpec == InitShuffle /\ IdleLoader /\ IdleTrainer /\ IdleCompare /\ IdleLater

NextShuffle == ReshuffleAndRebatch /\ UNCHANGED <<loaderVars, trainVars, compareVars, laterVars>>

SpecShuffle == InitShuffleSpec /\ [][NextShuffle]_vars

InitCompareSpec == InitCompare /\ IdleLoader /\ IdleTrainer /\ IdleShuffle /\ IdleLater

NextCompare ==
    \/ Compare /\ UNCHANGED <<loaderVars, trainVars, shuffleVars, laterVars>>
    \/ CompareSwapped /\ UNCHANGED <<loaderVars, trainVars, shuffleVars, laterVars>>

SpecCompare == InitCompareSpec /\ [][NextCompare]_vars

InitPpoSpec == InitPpo /\ IdleLoader /\ IdleTrainer /\ IdleShuffle /\ IdleCompare /\ IdleRun /\ IdleAdv /\ IdleStat
        /\ IdleRef /\ IdleSave /\ IdleLast

NextPpo == PpoStep /\ UNCHANGED <<loaderVars, trainVars, shuffleVars, compareVars, runVars, advVars, statVars, refVars,
                                 saveVars, lastVars>>

SpecPpo == InitPpoSpec /\ [][NextPpo]_vars

otherThanAdvVars == <<loaderVars, trainVars, shuffleVars, compareVars, ppoVars, runVars, statVars, refVars,
      saveVars, lastVars>>

InitAdvSpec ==
    InitAdv /\ IdleLoader /\ IdleTrainer /\ IdleShuffle /\ IdleCompare /\ IdlePpo /\ IdleRun
        /\ IdleStat /\ IdleRef /\ IdleSave /\ IdleLast

NextAdv ==
    \/ \E p \in 0..(adv_num_processes - 1) : GatherRewards(p) /\ UNCHANGED otherThanAdvVars
    \/ \E p \in 0..(adv_num_processes - 1) : SetAdvantages(p) /\ UNCHANGED otherThanAdvVars

SpecAdv == InitAdvSpec /\ [][NextAdv]_vars

otherThanStatVars ==
    <<loaderVars, trainVars, shuffleVars, compareVars, ppoVars, runVars, advVars, refVars,
      saveVars, lastVars>>

InitStatSpec ==
    InitStat /\ IdleLoader /\ IdleTrainer /\ IdleShuffle /\ IdleCompare /\ IdlePpo /\ IdleRun
        /\ IdleAdv /\ IdleRef /\ IdleSave /\ IdleLast

NextStat ==
    \E n \in 0..MaxCallLen : \E prompts \in [1..n -> TrackedPrompts] :
    \E rewards \in [1..n -> TrackedRewards] :
        StatUpdate(prompts, rewards) /\ UNCHANGED otherThanStatVars

SpecStat == InitStatSpec /\ [][NextStat]_vars

otherThanRefVars ==
    <<loaderVars, trainVars, shuffleVars, compareVars, ppoVars, runVars, advVars, statVars,
      saveVars, lastVars>>

InitRefSpec ==
    InitRef /\ IdleLoader /\ IdleTrainer /\ IdleShuffle /\ IdleCompare /\ IdlePpo /\ IdleRun
        /\ IdleAdv /\ IdleStat /\ IdleSave /\ IdleLast

NextRef ==
    \/ D3poConstruct /\ UNCHANGED otherThanRefVars
    \/ \E g \in Gradients : D3poTrainTimestep(g) /\ UNCHANGED otherThanRefVars

SpecRef == InitRefSpec /\ [][NextRef]_vars

otherThanSaveVars ==
    <<loaderVars, trainVars, shuffleVars, compareVars, ppoVars, runVars, advVars, statVars,
      refVars, lastVars>>

InitSaveSpec ==
    InitSave /\ IdleLoader /\ IdleTrainer /\ IdleShuffle /\ IdleCompare /\ IdlePpo /\ IdleRun
        /\ IdleAdv /\ IdleStat /\ IdleRef /\ IdleLast

NextSave ==
    \/ \E p \in SaveWorkers : SaveSample(p) /\ UNCHANGED otherThanSaveVars
    \/ \E p \in SaveWorkers : SaveInnerEpoch(p) /\ UNCHANGED otherThanSaveVars
    \/ \E p \in SaveWorkers : SaveEndEpoch(p) /\ UNCHANGED otherThanSaveVars
    \/ \E p \in SaveWorkers : SaveState(p) /\ UNCHANGED otherThanSaveVars

SpecSave == InitSaveSpec /\ [][NextSave]_vars

otherThanRunVars == <<loaderVars, trainVars, shuffleVars, compareVars, ppoVars, advVars, statVars, refVars,
      saveVars, lastVars>>

InitRunSpec ==
    InitRun /\ IdleLoader /\ IdleTrainer /\ IdleShuffle /\ IdleCompare /\ IdlePpo /\ IdleAdv
        /\ IdleStat /\ IdleRef /\ IdleSave /\ IdleLast

NextRun ==
    \/ Main /\ UNCHANGED otherThanRunVars
    \/ Construct /\ UNCHANGED otherThanRunVars
    \/ RunEpoch /\ UNCHANGED otherThanRunVars
    \/ RunFinish /\ UNCHANGED otherThanRunVars

SpecRun == InitRunSpec /\ [][NextRun]_vars

otherThanInnerVars ==
    <<loaderVars, trainVars, shuffleVars, compareVars, ppoVars, runVars, advVars, statVars,
      refVars, saveVars, pairVars, lossVars>>

InitInnerSpec ==
    InitInner /\ IdleLoader /\ IdleTrainer /\ IdleShuffle /\ IdleCompare /\ IdlePpo /\ IdleRun
        /\ IdleAdv /\ IdleStat /\ IdleRef /\ IdleSave /\ IdlePair /\ IdleLoss

NextInner ==
    \/ InnerInit /\ UNCHANGED otherThanInnerVars
    \/ InnerSample /\ UNCHANGED otherThanInnerVars
    \/ InnerTimestep /\ UNCHANGED otherThanInnerVars
    \/ InnerEndInnerEpoch /\ UNCHANGED otherThanInnerVars

SpecInner == InitInnerSpec /\ [][NextInner]_vars

otherThanPairVars ==
    <<loaderVars, trainVars, shuffleVars, compareVars, ppoVars, runVars, advVars, statVars,
      refVars, saveVars, innerVars, lossVars>>

InitPairSpec ==
    InitPair /\ IdleLoader /\ IdleTrainer /\ IdleShuffle /\ IdleCompare /\ IdlePpo /\ IdleRun
        /\ IdleAdv /\ IdleStat /\ IdleRef /\ IdleSave /\ IdleInner /\ IdleLoss

NextPair ==
    \/ PairDrawPrompts /\ UNCHANGED otherThanPairVars
    \/ PairSampleFirst /\ UNCHANGED otherThanPairVars
    \/ PairSampleSecond /\ UNCHANGED otherThanPairVars
    \/ PairStack /\ UNCHANGED otherThanPairVars
    \/ PairFeedCurriculum /\ UNCHANGED otherThanPairVars

SpecPair == InitPairSpec /\ [][NextPair]_vars

otherThanLossVars ==
    <<loaderVars, trainVars, shuffleVars, compareVars, ppoVars, runVars, advVars, statVars,
      refVars, saveVars, innerVars, pairVars>>

InitLossSpec ==
    InitLoss /\ IdleLoader /\ IdleTrainer /\ IdleShuffle /\ IdleCompare /\ IdlePpo /\ IdleRun
        /\ IdleAdv /\ IdleStat /\ IdleRef /\ IdleSave /\ IdleInner /\ IdlePair

NextLoss ==
    \/ PairLoss /\ UNCHANGED otherThanLossVars

SpecLoss == InitLossSpec /\ [][NextLoss]_vars

(***************************************************************************)
(* Properties of the prompt loader (SpecLoader)                            *)
(***************************************************************************)
Workers == 0..(num_processes - 1)

\* C4: a next() call on a tier of the ladder never raises: when the tier's cursor
\* has reached the end it wraps and the call returns a prompt of that tier,
\* whatever the tier's length relative to the number of workers.
C4_NextNeverRaisesOnExhaustion ==
    \A p \in Workers :
        (last_call[p].called /\ last_call[p].difficulty \in DOMAIN difficulty_to_prompts)
            => /\ raised[p] = "none"
               /\ last_call[p].index >= 0
               /\ last_call[p].prompt[1] = last_call[p].difficulty

\* C5: every index worker p draws from a tier is congruent to p modulo the number
\* of workers, so two different workers never draw the same position of a tier.
C5_StridedDisjointDraws ==
    /\ \A p \in Workers : \A x \in drawn[p] : x[2] % num_processes = p
    /\ \A p \in Workers : \A q \in Workers : p # q => drawn[p] \cap drawn[q] = {}

\* C5 witness: two workers have drawn from the same tier and one of them has just
\* drawn after a wraparound.
C5_Witness ==
    \E p \in Workers : \E q \in Workers :
        /\ p # q
        /\ last_call[p].wrapped /\ last_call[p].index >= 0
        /\ \E x \in drawn[p] : \E y \in drawn[q] : x[1] = y[1]
        /\ \E x \in drawn[p] : x[1] # last_call[p].difficulty

\* C8: at every next() call, also before the first set_difficulty(), the active
\* difficulty is a tier of the ladder and lies within difficulty_range_getter().
C8_ActiveDifficultyInLadder ==
    \A p \in Workers :
        last_call[p].called
            => /\ last_call[p].difficulty \in DOMAIN difficulty_to_prompts
               /\ difficulty_range_getter[1] <= last_call[p].difficulty
               /\ last_call[p].difficulty <= difficulty_range_getter[2]

\* the cursors of worker p other than that of tier d are left as they were
OtherCursorsKept(p, d) ==
    /\ \A q \in Workers \ {p} : difficulty_to_prompts_idx'[q] = difficulty_to_prompts_idx[q]
    /\ \A e \in DOMAIN difficulty_to_prompts_idx[p] \ {d} :
           difficulty_to_prompts_idx'[p][e] = difficulty_to_prompts_idx[p][e]

\* a step of next() on worker p: it moves a cursor, records a call or raises
NextStepOf(p) ==
    \/ difficulty_to_prompts_idx'[p] # difficulty_to_prompts_idx[p]
    \/ last_call'[p] # last_call[p]
    \/ raised'[p] # raised[p]

\* C29: set_difficulty(d) changes only the active tier and leaves every cursor as
\* it was; next() leaves the active tier and the cursors of all other tiers as they
\* were and, when it returns a prompt, leaves the cursor of the active tier at the
\* position it drew from plus the worker count, that position being the cursor
\* the tier was left at (or the worker's index after a wraparound): a worker that
\* comes back to a tier continues where it stopped.
C29_CursorsChangeOnlyInActiveTier ==
    [][\A p \in Workers :
          /\ current_difficulty'[p] # current_difficulty[p] =>
                 /\ difficulty_to_prompts_idx' = difficulty_to_prompts_idx
                 /\ drawn' = drawn
          /\ NextStepOf(p) =>
                 LET d == current_difficulty[p] IN
                 /\ current_difficulty' = current_difficulty
                 /\ OtherCursorsKept(p, d)
                 /\ raised'[p] = "none" =>
                        /\ last_call'[p].difficulty = d
                        /\ last_call'[p].index =
                               IF difficulty_to_prompts_idx[p][d] >= Len(difficulty_to_prompts[d])
                               THEN p ELSE difficulty_to_prompts_idx[p][d]
                        /\ difficulty_to_prompts_idx'[p][d] =
                               last_call'[p].index + num_processes]_vars

\* C29 witness: of two workers, worker 0 has drawn once from tier 2 and twice from
\* tier 1, the second time from position 2 without a wraparound, and the cursor of
\* tier 2 still stands where its draw left it.
C29_Witness ==
    /\ num_processes = 2
    /\ drawn[0] = {<<1, 0>>, <<1, 2>>, <<2, 0>>}
    /\ last_call[0].difficulty = 1
    /\ last_call[0].index = 2
    /\ ~last_call[0].wrapped
    /\ difficulty_to_prompts_idx[0][1] = 4
    /\ difficulty_to_prompts_idx[0][2] = 2

(***************************************************************************)
(* Properties of the trainer (SpecTrain)                                   *)
(***************************************************************************)
InTraining == pc \in {"step", "inner_end"}
SomeBatchFinished == epoch > 0 \/ batch_index > 0

\* C2 (as stated): an inner epoch of K minibatches ends with exactly K optimizer
\* steps, each preceded by exactly T = num_train_timesteps backward passes.
C2_OneStepPerMinibatch ==
    /\ pc = "inner_end" => optim.steps = NumMinibatches(config)
    /\ optim.window # 0 => optim.window = config.num_train_timesteps

\* C2 (amended): an inner epoch of K minibatches ends with exactly
\* K / train_gradient_accumulation_steps optimizer steps, each preceded by exactly
\* T * train_gradient_accumulation_steps backward passes.
C2_OneStepPerAccumulationWindow ==
    /\ pc = "inner_end" =>
           optim.steps * config.train_gradient_accumulation_steps = NumMinibatches(config)
    /\ optim.window # 0 =>
           optim.window = config.num_train_timesteps * config.train_gradient_accumulation_steps

\* C2 witness: a second inner epoch of 4 minibatches has ended with accumulation
\* over 2 samples.
C2_Witness ==
    /\ pc = "inner_end"
    /\ inner_epoch = 1
    /\ config.train_gradient_accumulation_steps = 2
    /\ config.num_train_timesteps = 2
    /\ NumMinibatches(config) = 4
    /\ optim.steps = 2

\* C3: in the PPO-clip trainer gradients sync only at the final timestep of a
\* minibatch whose 1-based index is a multiple of train_gradient_accumulation_steps,
\* so neither the assertion in step nor the one ending an inner epoch fails, over
\* all inner epochs and epochs, and an accumulation window is made of whole
\* minibatches.
C3_SyncOnlyAtWindowEnd ==
    config.rl_algorithm = "ddpo" =>
        /\ t_raised \notin {"AssertionError:sync", "AssertionError:inner_epoch"}
        /\ InTraining =>
             /\ accel.sync_gradients <=>
                    (timestep = 0 /\ minibatch % config.train_gradient_accumulation_steps = 0)
             /\ accel.window =
                    (minibatch % config.train_gradient_accumulation_steps)
                        * config.num_train_timesteps + timestep

\* C3 witness: in the second epoch, the second inner epoch of the PPO-clip trainer
\* ends on a sync point with accumulation over 2 samples of 2 timesteps.
C3_Witness ==
    /\ config.rl_algorithm = "ddpo"
    /\ pc = "inner_end"
    /\ epoch = 1
    /\ inner_epoch = 1
    /\ config.train_gradient_accumulation_steps = 2
    /\ config.num_train_timesteps = 2
    /\ accel.sync_gradients
    /\ t_raised = "none"

\* C6: the prompts of one sampling batch come from a single tier, and once a batch
\* has been finished that tier is the difficulty the controller returned after
\* the previous batch (also for the first batch of the next epoch): the returned
\* difficulty is applied between batches, never inside one.
C6_BatchFromSingleTier ==
    /\ \A k \in DOMAIN batch_prompts : \A l \in DOMAIN batch_prompts :
           batch_prompts[k][1] = batch_prompts[l][1]
    /\ SomeBatchFinished =>
           \A k \in DOMAIN batch_prompts : batch_prompts[k][1] = last_difficulty
    /\ pc = "draw" =>
           \A k \in DOMAIN batch_prompts :
               batch_prompts[k][1] = current_difficulty[process_index]

\* C6 witness: the first batch of the second epoch is fully drawn from tier 2,
\* the difficulty returned after the last batch of the first epoch.
C6_Witness ==
    /\ pc = "draw"
    /\ epoch = 1
    /\ batch_index = 0
    /\ config.sample_batch_size = 2
    /\ Len(batch_prompts) = 2
    /\ last_difficulty = 2
    /\ batch_prompts[1][1] = 2

\* C7: in each of the three trainers every sampling batch is followed by exactly
\* one infer_target_difficulty call with current_step = global_step + the batch's
\* index, the last difficulty and the batch's mean reward, then by exactly one
\* update_target_difficulty call, and the sampling phase completes all
\* sample_num_batches_per_epoch batches.
C7_EveryBatchFeedsCurriculum ==
    /\ t_raised \notin {"UnboundLocalError", "AttributeError"}
    /\ sampling.infer_calls = batch_index
    /\ sampling.update_calls = batch_index
    /\ sampling.observation # NoObservation =>
           sampling.observation.current_step = global_step + batch_index - 1
    /\ pc = "sampled" => batch_index = config.sample_num_batches_per_epoch

\* C9: the difficulty infer_target_difficulty returns always lies within
\* [min_tier, max_tier], whatever the reward (finite, +inf, -inf or NaN) and
\* whatever difficulty the observation carries.
C9_InferredDifficultyInRange ==
    SomeBatchFinished =>
        /\ last_difficulty \in Int
        /\ difficulty_range_getter[1] <= last_difficulty
        /\ last_difficulty <= difficulty_range_getter[2]

\* C9 witness: the controller has answered an observation whose reward is NaN and
\* whose difficulty (the trainer's initial 0) lies below the range.
C9_Witness ==
    /\ sampling.infer_calls = 1
    /\ sampling.observation.reward = NaN
    /\ sampling.observation.difficulty = 0
    /\ epoch = 0

(***************************************************************************)
(* Properties of the reshuffle-and-rebatch transform (SpecShuffle)         *)
(***************************************************************************)
\* the positions of samples_batched: minibatch, row of the minibatch, time index
BatchedPositions ==
    (1..(shape.total_batch_size \div shape.train_batch_size))
        \X (1..shape.train_batch_size) \X (1..shape.num_timesteps)

\* the <<trajectory, denoising step>> a cell of samples_batched[key] was recorded at
\* (of trajectory `member` of the pair in d3po)
CellOrigin(key, pos, member) ==
    IF shape.rl_algorithm = "d3po"
    THEN LET cell == samples_batched[key][pos[1]][pos[2]][member][pos[3]]
         IN  IF key = "timesteps" THEN cell
             ELSE IF cell[2] = member THEN <<cell[1], cell[3]>> ELSE <<0, 0>>
    ELSE samples_batched[key][pos[1]][pos[2]][pos[3]]

PairMembers == IF shape.rl_algorithm = "d3po" THEN 1..2 ELSE {1}

\* C1: after any number of inner epochs the reshuffle-and-rebatch transform is a
\* bijection on the B x T index set: every (trajectory, timestep) pair sits in
\* exactly one minibatch at exactly one position.
C1_ReshuffleIsBijection ==
    shuffles > 0 =>
        \A key \in TimeKeys : \A member \in PairMembers :
        \A r \in 1..shape.total_batch_size : \A t \in 1..shape.num_timesteps :
            Cardinality({pos \in BatchedPositions : CellOrigin(key, pos, member) = <<r, t>>}) = 1

\* C1 witness: after two successive inner epochs of the PPO-clip trainer three
\* trajectories of two timesteps, in minibatches of one, are out of their original
\* order and two of them carry different time orders.
C1_Witness ==
    /\ shuffles = 2
    /\ shape.rl_algorithm = "ddpo"
    /\ shape.total_batch_size = 3
    /\ shape.num_timesteps = 2
    /\ shape.train_batch_size = 1
    /\ samples["prompt_embeds"][1] # <<1>>
    /\ \E r1 \in 1..3 : \E r2 \in 1..3 :
           samples["latents"][r1][1][2] # samples["latents"][r2][1][2]

\* the trajectory whose row-level value (advantage, reward, prompt embedding) sits at
\* row r of minibatch m of samples_batched[key] (for trajectory `member` of the pair)
RowOrigin(key, m, r, member) ==
    IF shape.rl_algorithm = "d3po"
    THEN LET cell == samples_batched[key][m][r][member]
         IN  IF cell[2] = member THEN cell[1] ELSE 0
    ELSE samples_batched[key][m][r][1]

\* d3po step(samples, step, ...): value[step: step + train_batch_size, member] of a key
StepSlice(key, step, member) ==
    [r \in 1..shape.train_batch_size |-> samples[key][step + r][member + 1]]

\* the row offsets epoch_loop passes to the d3po step
StepOffsets ==
    {(m - 1) * shape.train_batch_size :
        m \in 1..(shape.total_batch_size \div shape.train_batch_size)}

\* C27: after any number of inner epochs, at every (trajectory, position) of every
\* minibatch the timestep, state-before, state-after and sampling-time
\* log-probability come from the same denoising step of the same original
\* trajectory, the advantage (or reward pair) and prompt embedding of the row are
\* those of that trajectory, both trajectories of a pair carry the same timestep
\* permutation, and the slices the pairwise step takes of samples are these minibatches.
C27_RecordsStayAligned ==
    shuffles > 0 =>
        /\ \A pos \in BatchedPositions : \A member \in PairMembers :
               LET origin == CellOrigin("timesteps", pos, member) IN
               /\ origin \in (1..shape.total_batch_size) \X (1..shape.num_timesteps)
               /\ \A key \in TimeKeys : CellOrigin(key, pos, member) = origin
               /\ \A key \in RowKeys(shape.rl_algorithm) :
                      RowOrigin(key, pos[1], pos[2], member) = origin[1]
               /\ \A key \in TimeKeys : CellOrigin(key, pos, 1) = origin
        /\ shape.rl_algorithm = "d3po" =>
               \A step \in StepOffsets : \A member \in 0..1 :
               \A key \in TimeKeys \cup RowKeys("d3po") :
                   StepSlice(key, step, member) =
                       [r \in 1..shape.train_batch_size |->
                           samples_batched[key][(step \div shape.train_batch_size) + 1][r][member + 1]]

\* C27 witness: the second inner epoch of the pairwise trainer on two pairs of two
\* timesteps, in minibatches of one: the pairs are exchanged and the first row holds
\* the second pair with its two denoising steps reversed, in both trajectories.
C27_Witness ==
    /\ shuffles = 2
    /\ shape.rl_algorithm = "d3po"
    /\ shape.total_batch_size = 2
    /\ shape.num_timesteps = 2
    /\ shape.train_batch_size = 1
    /\ samples["timesteps"][1] = <<<<<<2, 2>>, <<2, 1>>>>, <<<<2, 2>>, <<2, 1>>>>>>
    /\ samples["latents"][1] = <<<<<<2, 1, 2>>, <<2, 1, 1>>>>, <<<<2, 2, 2>>, <<2, 2, 1>>>>>>
    /\ samples["rewards"][1] = <<<<2, 1>>, <<2, 2>>>>
    /\ samples["log_probs"][2][1] = <<<<1, 1, 1>>, <<1, 1, 2>>>>

(***************************************************************************)
(* Properties of the domination comparison (SpecCompare)                   *)
(***************************************************************************)
Example10A == [ndim |-> 2, data |-> <<<<30, 10>>>>]
Example10B == [ndim |-> 2, data |-> <<<<20, 8>>>>]

\* C10 (as stated): for a = (30, 10), b = (20, 8) neither dominates and the
\* preference is (0, 0).
C10_ExampleNeitherDominates ==
    (cmp_a = Example10A /\ cmp_b = Example10B /\ cmp_c # <<>>) => cmp_c = <<<<0, 0>>>>

\* C10 (amended): for a = (30, 10), b = (20, 8), b dominates a (b <= a in every
\* dimension, b < a in one) and the preference is (+1, -1).
C10_ExampleSecondDominates ==
    (cmp_a = Example10A /\ cmp_b = Example10B /\ cmp_c # <<>>) => cmp_c = <<<<1, -1>>>>

\* C10 witness: _compare has been called on a = (30, 10), b = (20, 8).
C10_Witness == cmp_a = Example10A /\ cmp_b = Example10B /\ cmp_c # <<>>

\* row k of a reward batch as a vector (a scalar reward is a vector of dimension one)
RewardVector(batch, k) == IF batch.ndim = 1 THEN <<batch.data[k]>> ELSE batch.data[k]

\* C11: for every pair of reward vectors of equal dimension, if a is lower or equal
\* in every dimension and lower in one the preference is (-1, +1), if b is lower or
\* equal in every dimension and lower in one it is (+1, -1), and if a and b are
\* equal in every dimension it is (0, 0).
C11_DominationDecidesPreference ==
    cmp_c # <<>> =>
        \A k \in DOMAIN cmp_c :
            LET a == RewardVector(cmp_a, k)
                b == RewardVector(cmp_b, k)
                dims == DOMAIN a
            IN  /\ ((\A i \in dims : a[i] <= b[i]) /\ (\E i \in dims : a[i] < b[i]))
                       => cmp_c[k] = <<-1, 1>>
                /\ ((\A i \in dims : b[i] <= a[i]) /\ (\E i \in dims : b[i] < a[i]))
                       => cmp_c[k] = <<1, -1>>
                /\ (\A i \in dims : a[i] = b[i]) => cmp_c[k] = <<0, 0>>

\* C11 witness: _compare has been called on a = (10, 10), b = (20, 20) and has
\* answered (-1, +1).
C11_Witness ==
    /\ cmp_a = [ndim |-> 2, data |-> <<<<10, 10>>>>]
    /\ cmp_b = [ndim |-> 2, data |-> <<<<20, 20>>>>]
    /\ cmp_c = <<<<-1, 1>>>>

PreferenceRows == {<<-1, 1>>, <<1, -1>>, <<0, 0>>}

\* C30: for every pair of reward batches a, b of the same shape each row of
\* _compare(a, b) is one of (-1,+1), (+1,-1), (0,0); "a dominates b" and
\* "b dominates a" are never both true of a row; and exchanging the arguments
\* exchanges the two columns of every row.
C30_CompareAntisymmetric ==
    cmp_c # <<>> =>
        \A k \in DOMAIN cmp_c :
            /\ cmp_c[k] \in PreferenceRows
            /\ ~(Dominates(Unsqueeze(cmp_a), Unsqueeze(cmp_b), k)
                 /\ Dominates(Unsqueeze(cmp_b), Unsqueeze(cmp_a), k))
            /\ cmp_swapped # <<>> => cmp_swapped[k] = <<cmp_c[k][2], cmp_c[k][1]>>

\* C30 witness: a = [8, 10] and b = [10, 10] have been compared in both orders: a
\* dominates in the first row and the second row is a tie.
C30_Witness ==
    /\ cmp_a = [ndim |-> 1, data |-> <<8, 10>>]
    /\ cmp_b = [ndim |-> 1, data |-> <<10, 10>>]
    /\ cmp_c = <<<<-1, 1>>, <<0, 0>>>>
    /\ cmp_swapped = <<<<1, -1>>, <<0, 0>>>>

(***************************************************************************)
(* Properties of the PPO-clip loss (SpecPpo)                               *)
(***************************************************************************)
\* the two sides a / b and c / d of an equation between fractions
SameFraction(x, y) == x.num * y.den = y.num * x.den

PpoStepDone == ppo_info # <<>>
SameLogProbs == ppo_log_prob = ppo_batch.log_probs

\* C12 (as stated): when logp_new equals logp_old at every step the ratio is 1 at
\* every step, the clip fraction is 0 and the loss is mean(-advantage) over the
\* stored advantages, for every advantage value.
C12_LossIsMeanOfNegatedAdvantages ==
    (PpoStepDone /\ SameLogProbs) =>
        /\ \A k \in DOMAIN ppo_info.ratio : ppo_info.ratio[k] = One
        /\ ppo_info.clipfrac.num = 0
        /\ SameFraction(ppo_info.loss,
               Mean([k \in DOMAIN ppo_batch.advantages |-> (-ppo_batch.advantages[k]) * One], One))

\* C12 (amended): when logp_new equals logp_old at every step the ratio is 1 at
\* every step, the clip fraction is 0 and the loss is the mean of the negated
\* advantages after each has been clamped to [-train_adv_clip_max, train_adv_clip_max].
C12_LossIsMeanOfNegatedClampedAdvantages ==
    (PpoStepDone /\ SameLogProbs) =>
        /\ \A k \in DOMAIN ppo_info.ratio : ppo_info.ratio[k] = One
        /\ ppo_info.clipfrac.num = 0
        /\ SameFraction(ppo_info.loss,
               Mean([k \in DOMAIN ppo_batch.advantages |->
                        LET a == ppo_batch.advantages[k]
                            m == ppo_config.train_adv_clip_max
                        IN  (-(IF a < -m THEN -m ELSE IF a > m THEN m ELSE a)) * One], One))

\* C12 witness: a step on a minibatch of two with equal log-probabilities, one
\* stored advantage beyond train_adv_clip_max and one within it.
C12_Witness ==
    /\ PpoStepDone
    /\ SameLogProbs
    /\ ppo_config.train_adv_clip_max = 5
    /\ ppo_batch.advantages = <<6, -1>>

(***************************************************************************)
(* Properties of startup and resume (SpecRun)                              *)
(***************************************************************************)
UnknownAlgorithm == run_argv.rl_algorithm \notin {"ddpo", "d3po", "dpok"}
ResumeWithoutCheckpoint ==
    run_config.resume_from # "" /\ \A x \in run_listdir : x.stem # "checkpoint_"
IndivisibleBatch == run_config.sample_batch_size % run_config.train_batch_size # 0

\* C13: a resume directory without a checkpoint, a sample batch size that is not a
\* multiple of the train batch size and an unrecognised algorithm name each end the
\* run at startup with an error, before any prompt is drawn, any trajectory is
\* sampled, any optimizer step is taken or any checkpoint is written.
C13_ConfigurationErrorsFailFast ==
    (run_pc # "idle" /\ (UnknownAlgorithm \/ ResumeWithoutCheckpoint \/ IndivisibleBatch)) =>
        /\ run_pc \in {"main", "init", "raised"}
        /\ run_pc = "raised" => run_raised \in {"ValueError", "AssertionError"}
        /\ effects = [prompts |-> 0, trajectories |-> 0, optimizer_steps |-> 0,
                      checkpoints |-> 0]
        /\ epochs_run = <<>>

\* C13 witness: a run of a recognised trainer, with consistent batch sizes, resumed
\* from a directory that holds no checkpoint has ended with ValueError.
C13_Witness ==
    /\ run_pc = "raised"
    /\ run_raised = "ValueError"
    /\ ~UnknownAlgorithm
    /\ ~IndivisibleBatch
    /\ ResumeWithoutCheckpoint
    /\ run_listdir # {}

\* the largest number among the checkpoint_<k> names of the resume directory
LargestIndex ==
    LET ks == {ParseInt(x.digits) : x \in {y \in run_listdir : y.stem = "checkpoint_"}}
    IN  CHOOSE k \in ks : \A other \in ks : k >= other

\* C14: a PPO-clip run resumed from a checkpoint root directory resumes from the
\* checkpoint_<k> entry with the numerically largest k and executes exactly the
\* epochs k+1, ..., num_epochs-1, in order (none if k+1 >= num_epochs).
C14_ResumeFromLargestIndex ==
    (run_pc \in {"train", "done"} /\ run_argv.rl_algorithm = "ddpo"
         /\ run_config.resume_from # "") =>
        /\ run_resume_from \in run_listdir
        /\ run_resume_from.stem = "checkpoint_"
        /\ ParseInt(run_resume_from.digits) = LargestIndex
        /\ \A i \in 1..Len(epochs_run) :
               epochs_run[i] = LargestIndex + i /\ epochs_run[i] < run_config.num_epochs
        /\ run_pc = "done" =>
               epochs_run = [i \in 1..(IF LargestIndex + 1 >= run_config.num_epochs THEN 0
                                       ELSE run_config.num_epochs - 1 - LargestIndex)
                                |-> LargestIndex + i]

\* C14 witness: a PPO-clip run of 12 epochs resumed from a directory that holds
\* checkpoint_9 and checkpoint_10 has finished after epoch 11 alone.
C14_Witness ==
    /\ run_pc = "done"
    /\ run_argv.rl_algorithm = "ddpo"
    /\ run_listdir = {[stem |-> "checkpoint_", digits |-> <<9>>],
                      [stem |-> "checkpoint_", digits |-> <<1, 0>>]}
    /\ run_config.num_epochs = 12
    /\ epochs_run = <<11>>

(***************************************************************************)
(* Properties of the advantages of an epoch (SpecAdv)                      *)
(***************************************************************************)
\* the rewards of all workers' trajectories: worker 0's first, then worker 1's, ...
RECURSIVE AllRewards(_)
AllRewards(n) == IF n = 0 THEN <<>> ELSE AllRewards(n - 1) \o adv_local_rewards[n - 1]

\* the advantage of reward r among the rewards of population
AdvantageOf(r, population) ==
    LET n == Len(population)
        total == SumSeq(population)
        squares == SumSeq([i \in DOMAIN population |-> population[i] * population[i]])
    IN  [deviation |-> n * r - total, spread |-> n * squares - total * total, count |-> n]

\* C15: the advantages of an epoch are computed from the rewards of all workers,
\* and after un-gathering, the k-th local trajectory of worker p carries the
\* advantage of its own reward, element p * L + k of the gathered sequence, for
\* every number of workers.
C15_AdvantagesFromGatheredRewards ==
    \A p \in DOMAIN adv_samples :
        adv_samples[p] # <<>> =>
            LET L == Len(adv_local_rewards[p])
                all == AllRewards(adv_num_processes)
            IN  /\ Len(adv_samples[p]) = L
                /\ \A k \in 1..L :
                       /\ all[p * L + k] = adv_local_rewards[p][k]
                       /\ adv_samples[p][k] = AdvantageOf(adv_local_rewards[p][k], all)

\* C15 witness: with two workers of two trajectories each and all four rewards
\* not the same on both workers, the second worker holds its advantages.
C15_Witness ==
    /\ adv_num_processes = 2
    /\ Len(adv_local_rewards[1]) = 2
    /\ adv_local_rewards[0] # adv_local_rewards[1]
    /\ adv_local_rewards[1][1] # adv_local_rewards[1][2]
    /\ adv_samples[1] # <<>>

(***************************************************************************)
(* Properties of PerPromptStatTracker (SpecStat)                           *)
(***************************************************************************)
\* C16: in an update call, a reward of a prompt whose history, the call's rewards
\* included, holds fewer than min_count rewards gets the batch-global
\* normalisation over all rewards of the call; once the history holds min_count
\* rewards the advantage is the normalisation over that prompt's buffered rewards
\* alone.
C16_BaselineFallback ==
    \A k \in DOMAIN st_call.advantages :
        LET history == st_stats[st_call.prompts[k]]
        IN  st_call.advantages[k] =
                IF Len(history) < st_config.min_count
                THEN AdvantageOf(st_call.rewards[k], st_call.rewards)
                ELSE AdvantageOf(st_call.rewards[k], history)

\* C16 witness: with buffer_size 4 and min_count 2, after ([p1, p2], [1, 2]) the
\* call ([p1, p2], [2, 4]) has found the buffers p1: [1, 2] and p2: [2, 4] and has
\* normalised 2 against [1, 2], not against [2, 4].
C16_Witness ==
    /\ st_config = [buffer_size |-> 4, min_count |-> 2]
    /\ st_call.prompts = <<"p1", "p2">>
    /\ st_call.rewards = <<2, 4>>
    /\ st_stats = [p \in {"p1", "p2"} |-> IF p = "p1" THEN <<1, 2>> ELSE <<2, 4>>]
    /\ st_call.advantages[1] = [deviation |-> 1, spread |-> 1, count |-> 2]
    /\ st_call.advantages[1] # AdvantageOf(2, <<2, 4>>)

\* the last n elements of a sequence (all of it if it is shorter)
LastOf(q, n) == IF Len(q) <= n THEN q ELSE SubSeq(q, Len(q) - n + 1, Len(q))

\* C17: after any sequence of update calls each prompt's buffer holds at most
\* buffer_size rewards, and they are the most recent buffer_size rewards fed for
\* that prompt, in arrival order.
C17_BufferHoldsMostRecent ==
    st_config # <<>> =>
        \A p \in DOMAIN st_stats :
            /\ Len(st_stats[p]) <= st_config.buffer_size
            /\ st_stats[p] = LastOf(st_fed[p], st_config.buffer_size)

\* C17 witness: a prompt with a buffer of two has been fed three rewards in two
\* calls and the first one is gone.
C17_Witness ==
    /\ st_config # <<>>
    /\ st_config.buffer_size = 2
    /\ st_call.calls = 2
    /\ st_fed["p1"] = <<1, 2, 4>>
    /\ st_stats["p1"] = <<2, 4>>

(***************************************************************************)
(* Properties of the d3po reference policy (SpecRef)                       *)
(***************************************************************************)
\* C18: the reference policy of the pairwise-preference trainer is created once,
\* at construction, and never changes afterwards: neither a training step, an
\* optimizer step nor a checkpoint resume modifies its parameters, and the
\* optimizer holds the trainable policy and nothing else.
C18_ReferencePolicyFrozen ==
    d3_pc = "train" =>
        /\ d3_heap[d3_ref] = d3_ref_created
        /\ d3_heap[d3_ref].base = 0
        /\ ~d3_heap[d3_ref].has_lora
        /\ d3_grad[d3_ref] = <<>>
        /\ d3_optimizer = {d3_unet}
        /\ d3_ref # d3_unet

\* C18 witness: a LoRA run resumed from a checkpoint has taken optimizer steps that
\* moved the trainable policy away from the checkpoint.
C18_Witness ==
    /\ d3_pc = "train"
    /\ d3_config.use_lora
    /\ d3_config.resume_from = "checkpoint"
    /\ d3_backwards = 4
    /\ d3_heap[d3_unet].lora \notin {0, 5}

(***************************************************************************)
(* Properties of the end-of-epoch checkpoint (SpecSave)                    *)
(***************************************************************************)
\* worker q has finished the inner epochs of epoch e and has reached its end
TrainedThrough(q, e) ==
    \/ sv_epoch[q] > e
    \/ sv_epoch[q] = e /\ sv_pc[q] = "barrier"

\* C19: a checkpoint is persisted only at the end of an epoch e with
\* e % save_freq = 0, after all inner epochs of e, and only after every worker has
\* entered the end-of-epoch barrier: no worker persists a checkpoint while another
\* is still training epoch e, and all workers take the same save or skip decision
\* for each epoch.
C19_CheckpointAfterBarrier ==
    sv_config # <<>> =>
        /\ \A p \in DOMAIN sv_saved : \A e \in sv_saved[p] :
               /\ e % sv_config.save_freq = 0
               /\ \A q \in DOMAIN sv_pc : TrainedThrough(q, e)
        /\ \A p \in DOMAIN sv_pc :
               sv_pc[p] = "barrier" =>
                   sv_inner_epoch[p] = sv_config.train_num_inner_epochs
        /\ \A p \in DOMAIN sv_decided : \A q \in DOMAIN sv_decided :
           \A e \in DOMAIN sv_decided[p] \cap DOMAIN sv_decided[q] :
               sv_decided[p][e] = sv_decided[q][e]

\* C19 witness: two workers, save_freq 2: both have saved the checkpoint of epoch
\* 0, one has ended epoch 1 without a checkpoint and the other is training it.
C19_Witness ==
    /\ sv_num_processes = 2
    /\ sv_config.save_freq = 2
    /\ sv_config.train_num_inner_epochs = 2
    /\ sv_saved = [p \in 0..1 |-> {0}]
    /\ sv_epoch[0] = 2
    /\ sv_decided[0] = [e \in 0..1 |-> IF e = 0 THEN "save" ELSE "skip"]
    /\ sv_epoch[1] = 1
    /\ sv_pc[1] = "train"

(***************************************************************************)
(* Properties of the telemetry of the PPO-clip trainer (SpecTrain)         *)
(***************************************************************************)
\* C20: over the whole sequence of accelerator.log calls of a run (the per-epoch
\* reward and image logs, the training log of every synchronisation) the step key
\* never decreases, across minibatches, inner epochs and epochs.
C20_LogStepNeverDecreases == [][logged'.step >= logged.step]_vars

\* C20 witness: in the second epoch, after training logs of the first, the reward
\* log and then a training log of a later minibatch have been written.
C20_Witness ==
    /\ epoch = 1
    /\ logged.kind = "train"
    /\ logged.calls >= 4
    /\ logged.step > 2

(***************************************************************************)
(* Properties of the inner training epochs (SpecInner)                     *)
(***************************************************************************)
InnerStarted == tr_pc \notin {"idle", "new"}

WindowLength == AccumulationSteps(AsConfigured(tr_config))

\* C24: in every trainer the gradient norm is clipped exactly once per effective
\* optimizer step, after the backward pass of the last timestep of the accumulation
\* window and before that optimizer step, and never at a timestep whose optimizer
\* step is skipped; the gradients are cleared right after the step.
C24_ClipOncePerOptimizerStep ==
    InnerStarted =>
        /\ tr_totals.clip = tr_totals.optimizer_step
        /\ tr_totals.zero_grad = tr_totals.optimizer_step
        /\ tr_totals.backward = tr_totals.optimizer_step * WindowLength + tr_grads
        /\ tr_events # <<>> =>
               \/ /\ tr_events = <<"backward">>
                  /\ tr_grads \in 1..(WindowLength - 1)
               \/ /\ tr_events = <<"backward", "clip_grad_norm_", "optimizer.step", "zero_grad">>
                  /\ tr_sync.window = WindowLength
                  /\ tr_grads = 0

\* C24 witness: a ddpo run accumulating over two minibatches of two timesteps has
\* taken one optimizer step, with one clip, and is one backward pass into the
\* next window.
C24_Witness ==
    /\ tr_pc = "step"
    /\ tr_config.rl_algorithm = "ddpo"
    /\ tr_config.train_gradient_accumulation_steps = 2
    /\ tr_config.num_train_timesteps = 2
    /\ tr_totals = [backward |-> 5, clip |-> 1, optimizer_step |-> 1, zero_grad |-> 1]
    /\ tr_events = <<"backward">>
    /\ tr_grads = 1

(***************************************************************************)
(* Properties of the order of an epoch (SpecTrain)                         *)
(***************************************************************************)
SingleTrajectory == config.rl_algorithm \in {"ddpo", "dpok"}

IsPrefix(p, q) == Len(p) <= Len(q) /\ p = SubSeq(q, 1, Len(p))

HasPhase(name) == \E k \in DOMAIN observed.phases : observed.phases[k] = name

\* the phases of an epoch, in the order epoch_loop goes through them
EpochPhases ==
    IF config.train_num_inner_epochs > 0
    THEN <<"sample", "advantages", "train", "checkpoint">>
    ELSE <<"sample", "advantages", "checkpoint">>

\* C22: in the single-trajectory trainers with per-prompt tracking enabled,
\* PerPromptStatTracker.update is called exactly once per epoch: not before every
\* sampling batch of the epoch has completed, once before the first training
\* minibatch, and not again during the inner epochs; the phases of an epoch come in
\* the order sample, advantages, inner training epochs, checkpoint.
C22_TrackerUpdatedOncePerEpoch ==
    (pc # "idle" /\ SingleTrajectory /\ config.per_prompt_stat_tracking) =>
        /\ pc \in {"draw", "sampled"} => observed.stat_updates = epoch
        /\ pc \in {"shuffle", "step", "inner_end", "save"} =>
               /\ observed.stat_updates = epoch + 1
               /\ observed.stat_batches = config.sample_num_batches_per_epoch
               /\ batch_index = config.sample_num_batches_per_epoch
        /\ pc \in {"done", "error"} => observed.stat_updates = epoch
        /\ HasPhase("train") => HasPhase("advantages")
        /\ IsPrefix(observed.phases, EpochPhases)

\* C22 witness: the second epoch of a ddpo run with two sampling batches is in its
\* second inner epoch, past its first minibatch, and the tracker has been updated
\* twice in the run.
C22_Witness ==
    /\ pc = "step"
    /\ config.rl_algorithm = "ddpo"
    /\ config.per_prompt_stat_tracking
    /\ config.sample_num_batches_per_epoch = 2
    /\ epoch = 1
    /\ inner_epoch = 1
    /\ minibatch = 1
    /\ observed.stat_updates = 2
    /\ observed.phases = <<"sample", "advantages", "train">>

\* C23: for every sampling batch of a run, the first batch included, the difficulty
\* in the observation fed to the CurriculumController is the tier from which the
\* prompts of that batch were drawn.
C23_ObservedDifficultyIsDrawnTier ==
    sampling.observation # NoObservation =>
        sampling.observation.tiers = {sampling.observation.difficulty}

\* C28 as stated: within one run the current_step values of the observations fed
\* to the CurriculumController are strictly increasing over the whole sequence of
\* sampling batches, across epoch boundaries, for every configuration that passes
\* the startup assertions.
C28_FedStepsStrictlyIncrease == observed.fed_in_order

\* C28, amended: the current_step values are strictly increasing over the whole
\* run for every configuration that passes the startup assertions and has at least
\* one inner training epoch.
C28_FedStepsIncreaseWhenTraining ==
    (pc # "idle" /\ config.train_num_inner_epochs > 0) => observed.fed_in_order

\* C28 witness: the second batch of the second epoch of a training run has been fed,
\* with a current_step beyond every step of the first epoch.
C28_Witness ==
    /\ config.rl_algorithm = "ddpo"
    /\ config.train_num_inner_epochs > 0
    /\ config.sample_num_batches_per_epoch = 2
    /\ epoch = 1
    /\ sampling.infer_calls = 2
    /\ observed.fed_step = global_step + 1
    /\ observed.fed_step > config.sample_num_batches_per_epoch
    /\ observed.fed_in_order

(***************************************************************************)
(* Properties of paired-trajectory sampling (SpecPair)                     *)
(***************************************************************************)
PairPackaged == ps_pc \in {"stacked", "error"}

PairRows == 1..ps_config.sample_batch_size

\* C26: in every batch of paired-trajectory sampling the two trajectories of a prompt
\* have the same prompt and the same prompt embedding, the second rollout starts from
\* the first latent of the first, so the state-before of step 0 is the same in both,
\* and each trajectory has exactly sample_num_steps states-before, states-after,
\* log-probabilities and timesteps.
C26_PairSharesPromptAndInitialState ==
    /\ ps_pc \in {"second", "stacked", "error"} =>
           \A b \in PairRows :
               /\ ps_prompts[1][b] = ps_prompts[2][b]
               /\ ps_rollouts[2].latents[b][1] = ps_rollouts[1].latents[b][1]
    /\ PairPackaged =>
           \A b \in PairRows :
               /\ ps_sample.prompt_embeds[b][1] = ps_sample.prompt_embeds[b][2]
               /\ ps_sample.prompt_embeds[b][1] = <<"embeds", ps_sample.prompts[b]>>
               /\ ps_sample.latents[b][1][1] = ps_sample.latents[b][2][1]
               /\ Len(ps_sample.timesteps[b]) = ps_config.sample_num_steps
               /\ \A m \in 1..2 :
                      /\ Len(ps_sample.latents[b][m]) = ps_config.sample_num_steps
                      /\ Len(ps_sample.next_latents[b][m]) = ps_config.sample_num_steps
                      /\ Len(ps_sample.log_probs[b][m]) = ps_config.sample_num_steps
                      /\ \A k \in 1..(ps_config.sample_num_steps - 1) :
                             ps_sample.latents[b][m][k + 1] = ps_sample.next_latents[b][m][k]

\* two prompts of two steps each, whose rollouts part after the shared first state
C26_Witness ==
    /\ ps_pc = "stacked"
    /\ ps_config.sample_batch_size = 2
    /\ ps_config.sample_num_steps = 2
    /\ ps_sample.prompts = <<1, 2>>
    /\ ps_sample.latents[1] = <<<<0, 1>>, <<0, 0>>>>
    /\ ps_sample.next_latents[1] = <<<<1, 1>>, <<0, 1>>>>
    /\ ps_sample.latents[2][1][1] = 1
    /\ ps_sample.latents[2][2][1] = 1

(***************************************************************************)
(* Properties of the pairwise-preference loss (SpecLoss)                   *)
(***************************************************************************)
LossPairs == DOMAIN pl_rewards

\* C25: when neither trajectory of a pair dominates the other, the pair's preference
\* is (0,0), the argument of the sigmoid of its loss is 0 whatever the two clipped
\* ratios are, its loss is the constant -log(sigmoid(0)) and its gradient in the two
\* log-probabilities of the policy is zero.
C25_NoDominationNoGradient ==
    pl_out # <<>> =>
        \A k \in LossPairs :
            (/\ ~Dominates(Unsqueeze(PairRewards(pl_rewards, 1)), Unsqueeze(PairRewards(pl_rewards, 2)), k)
             /\ ~Dominates(Unsqueeze(PairRewards(pl_rewards, 2)), Unsqueeze(PairRewards(pl_rewards, 1)), k))
            => /\ pl_out[1].human_prefer[k] = <<0, 0>>
               /\ pl_out[1].argument[k] = 0
               /\ pl_out[1].losses[k] = NegLogSigmoid(0)
               /\ pl_out[1].grad[k] = <<0, 0>>

\* a pair of equal rewards whose two ratios differ, one of them clamped, next to a pair
\* with a preference, whose loss and gradient do depend on the policy
C25_Witness ==
    /\ pl_out # <<>>
    /\ Len(pl_rewards) = 2
    /\ pl_rewards[1] = <<10, 10>>
    /\ pl_log_ratios[1] = <<-100, 5>>
    /\ pl_out[1].ratio_0[1] = One - pl_config.train_eps
    /\ pl_out[1].ratio_1[1] = 105
    /\ pl_out[1].losses[1] = 69
    /\ pl_rewards[2] = <<10, 20>>
    /\ pl_log_ratios[2] = <<5, 5>>
    /\ pl_out[1].human_prefer[2] = <<-1, 1>>
    /\ pl_out[1].grad[2] # <<0, 0>>

====
